---- MODULE Spec2Model ----
(***************************************************************************)
(* Application lifecycle and progress core of la6lazy.                     *)
(*                                                                         *)
(*  - ProgressController   (src/unnamed/part_004, progress-controller.ts)  *)
(*  - AppController        (src/src/core/app-controller.ts, lines 13-238)  *)
(*  - AppState / AppPhase  (src/src/core/app-state.ts, lines 5-36)         *)
(*  - createUnlocker       (src/src/ui/unlocker.js)                        *)
(*  - createCRTLoader      (src/src/preloader/crt-bootstrap.ts)            *)
(*  - CRT worker           (src/src/preloader/crt-worker.ts)               *)
(*  - createGLPreloader    (src/src/preloader/shader-preload.ts)           *)
(*                                                                         *)
(* Numbers of the interval [0,1] are fixed-point: the integer n stands for *)
(* n / One, and every product is rounded to the nearest unit, as an IEEE   *)
(* double rounds to the nearest representable value.                       *)
(*                                                                         *)
(* The animation-frame scheduler is a FIFO queue of callbacks (rafQueue).  *)
(* A frame takes the callbacks pending at its start (running) and runs     *)
(* them in the order they were requested; callbacks requested during the   *)
(* frame wait for the next one.  Event handlers and promise continuations  *)
(* are tasks of their own and run between frames.                          *)
(***************************************************************************)
EXTENDS Integers, Sequences, FiniteSets

VARIABLES
  \* ---- ProgressController fields
  visualProgress,   \* this.visualProgress
  targetProgress,   \* this.targetProgress
  rafId,            \* this.rafId !== null
  delivered,        \* argument of the last onProgressUpdate call (-1: never called)
  \* ---- animation-frame scheduler
  rafQueue,         \* callbacks requested and not yet run, oldest first
  running,          \* callbacks of the frame in progress still to run
  \* ---- harness of the stand-alone smoothing controller runs
  variant,          \* controller driven: "class" (ProgressController), "inline" (main.ts)
  callsLeft,        \* API calls the harness may still make
  ticksSince,       \* smoothing ticks run since the last setTargetProgress / setLoadProgress
  lastCall,         \* last API call made: "none", "setTarget" (setTargetProgress or
                    \* setLoadProgress), "immediate", "dispose"
  prevVisual,       \* visual value before the last smoothing step (-1: none yet)
  lastArg,          \* argument of the last setTargetProgress / setLoadProgress /
                    \* setProgressImmediate call (NoArg: none, or dispose)
  updates,          \* onProgressUpdate invocations made by the last API call or tick
  \* ---- AppController / AppState
  initPc,           \* position of initialize(): "initCRT", "powerOn", "awaitBoot", "done";
                    \* "unregistered": resolved although createUnlocker registered
                    \* nothing; "rejected": initialize() rejected
  crt,              \* this.crt !== null
  phase,            \* appState.currentPhase
  frame,            \* frame counter of playCRTPowerOn
  bootResolved,     \* the promise of playCRTPowerOn is resolved
  canvasDisplay,    \* crtCanvas.style.display
  loadingStarted,   \* this.loadingStarted
  loadPc,           \* position of startSceneLoading()
  setSinceUnlock,   \* a loading milestone called setTargetProgress after onUnlock
  \* ---- AppState listeners
  listeners,        \* this.listeners: the registered listeners, in registration order
  notified,         \* listener calls <<listener, phase>> made by the last setPhase, in order
  phaseArg,         \* argument of the last stand-alone setPhase call ("none": no call yet)
  \* ---- unlock control (createUnlocker closure)
  uStarted,         \* started
  uDragging,        \* dragging
  uProgress,        \* progress
  uRemoved,         \* onUnlock was called and the element removed itself
  uStarts,          \* onStart invocations made by the control (counted up to 2)
  uUnlocks,         \* onUnlock invocations made by the control (counted up to 2)
  uFirst,           \* first callback the control invoked ("none": no callback yet)
  uReported,        \* argument of the last onProgress invocation (-1: none)
  uControls,        \* createUnlocker calls that registered the callbacks (counted up to 2)
  \* ---- commands the orchestrator has sent to the CRT surface handle
  crtMode,          \* flag of the last setMode (-1: none)
  crtProgress,      \* argument of the last setProgress (-1: none)
  crtScanline,      \* argument of the last setScanlinePhase (-1: none)
  crtFinished,      \* number of finish() calls
  \* ---- createCRTLoader handle
  hKind,            \* "none" before creation, then "worker" or "main"
  canvasOpacity,    \* canvas.style.opacity
  chan,             \* messages posted to the worker and not yet received, oldest first
  cmdsLeft,         \* commands the harness of the handle / worker runs may still issue
  lastModeArg,      \* string of the last handle.setMode call (NoMode: none)
  lastModeFlag,     \* flag that call forwarded (-1: none)
  hDestroys,        \* number of handle.destroy() calls
  \* ---- crt-worker.ts
  wPreloader,       \* preloader !== null
  wClosed,          \* self.close() was called
  wThrew,           \* a message handler threw
  wPreInit,         \* control messages handled while preloader was null
  \* ---- createGLPreloader closure (the renderer, in the worker or on the main thread)
  rKind,            \* "none", "live" (drawing), "noop" (the object returned without a context)
  rProgress,        \* progress
  rScanline,        \* scanlinePhase
  rMode,            \* mode
  rStopped,         \* stopped
  rDestroy,         \* the returned object has a destroy method (the build of part_013)
  rProgram,         \* shaders and program: "none", "linked", "deleted"
  rOdd,             \* frame() has drawn an odd number of frames since creation
  \* ---- a second page, without worker support, given the same commands
  twin,             \* state of its main-thread renderer (NoTwin: no such page)
  \* ---- AssetManager
  assets,           \* per asset name, the Asset objects performLoad has created, oldest
                    \* first; the data a load delivers is identified by its position
  cache,            \* this.cache: per name, the position of the Asset it holds (0: no entry)
  loadingPromises,  \* this.loadingPromises: per name, the load whose promise it holds (0: none)
  callers,          \* per caller, the state of its loadAsset call
  \* ---- AppController.dispose() and what throws after it
  disposed,         \* dispose() has been called
  crtDestroys,      \* destroy() calls dispose() made on the surface handle
  tickThrew,        \* an animation-frame callback of the orchestrator threw
  \* ---- canvases
  canvasOf,         \* per system (surface, controller, manager, layer), the canvas it was
                    \* constructed on: "none" (not constructed), "crt" or "main"
  \* ---- handleCriticalError
  errored,          \* handleCriticalError has run
  uHidden,          \* unlockerEl.style.display is none
  \* ---- AppState listeners that call setPhase themselves
  reaction,         \* what the listener Reactor does: invoked with phase on, it calls
                    \* setPhase(to) (NoReaction: it is not registered)
  observed,         \* listener calls <<listener, phase passed, getCurrentPhase() during
                    \* the call>> made by the last stand-alone setPhase, in order
  applied,          \* phases that call and the calls nested in it assigned, in order
  \* ---- LifecycleManager: the scenes
  scenePc,          \* position of startSceneLoading
  controllerMade,   \* this.controller is set
  sceneClasses,     \* names that have a class in this.sceneClasses
  layerCache,       \* names that have a layer in this.layerCache
  currentSceneName, \* this.currentSceneName ("none": null)
  layers,           \* names of the layers added to the controller, in order
  awaiting,         \* switchToScene calls waiting to resume after createAndInitializeScene
  switchesLeft,     \* switchToScene calls the page may still make
  addedAgain        \* addLayer was called for a layer that was already added

pcVars    == <<visualProgress, targetProgress, rafId, delivered>>
schedVars == <<rafQueue, running>>
harnVars  == <<variant, callsLeft, ticksSince, lastCall, prevVisual, lastArg, updates>>
appVars   == <<initPc, crt, phase, frame, bootResolved, canvasDisplay,
               loadingStarted, loadPc, setSinceUnlock>>
lsnVars   == <<listeners, notified, phaseArg>>
unlVars   == <<uStarted, uDragging, uProgress, uRemoved,
               uStarts, uUnlocks, uFirst, uReported, uControls>>
surfVars  == <<crtMode, crtProgress, crtScanline, crtFinished>>

handleVars == <<hKind, canvasOpacity, chan, cmdsLeft, lastModeArg, lastModeFlag,
                hDestroys>>
workerVars == <<wPreloader, wClosed, wThrew, wPreInit>>
rendVars   == <<rKind, rProgress, rScanline, rMode, rStopped, rDestroy, rProgram, rOdd>>
loaderVars == <<handleVars, workerVars, rendVars, twin>>
assetVars  == <<assets, cache, loadingPromises, callers>>
dispVars   == <<disposed, crtDestroys, tickThrew>>
errVars    == <<errored, uHidden>>
reentVars  == <<reaction, observed, applied>>
sceneVars  == <<scenePc, controllerMade, sceneClasses, layerCache, currentSceneName,
                layers, awaiting, switchesLeft, addedAgain>>
moreVars   == <<errVars, reentVars, sceneVars>>
extVars    == <<dispVars, canvasOf, moreVars>>

vars == <<pcVars, schedVars, harnVars, appVars, lsnVars, unlVars, surfVars, loaderVars,
          assetVars, extVars>>

----------------------------------------------------------------------------
\* Bounds and program constants

One      == 1000   \* fixed-point resolution: the integer One stands for 1.0
MaxCalls == 3      \* API calls of one stand-alone ProgressController run
MaxCmds  == 4      \* commands of one handle or worker run
MaxTicks == 32     \* ticks a smoothing run may take (0.82^32 < 0.002 <= 0.82^31)
MaxCallers == 3    \* loadAsset calls of one AssetManager run

KNum == 18         \* smoothing factor 0.18 = KNum / KDen
KDen == 100
Frames == 20       \* playCRTPowerOn(frames = 20)

Eps  == (2 * One) \div 1000      \* 0.002
Thr  == (995 * One) \div 1000    \* 0.995
U95  == (95 * One) \div 100      \* unlock threshold 0.95
T03  == (3 * One) \div 10        \* loading milestones 0.3, 0.5, 0.8
T05  == (5 * One) \div 10
T08  == (8 * One) \div 10
T07  == (7 * One) \div 10       \* milestone 0.7 of the controller with the async onStart

----------------------------------------------------------------------------
\* Arithmetic

Abs(x) == IF x < 0 THEN -x ELSE x

Min(a, b) == IF a < b THEN a ELSE b
Max(a, b) == IF a > b THEN a ELSE b

\* n / d rounded to the nearest integer, halves away from zero
RoundDiv(n, d) ==
  IF n >= 0 THEN (2 * n + d) \div (2 * d) ELSE -((2 * (-n) + d) \div (2 * d))

\* the number that stands for NaN: it is no fixed-point value of any run, and
\* every comparison and every Math.min / Math.max it enters gives NaN again
NaN == -(3 * One)

\* Math.min(1, Math.max(0, value))
Clamp01(value) == IF value = NaN THEN NaN ELSE Min(One, Max(0, value))

\* one more invocation or registration counted, the count going no further than 2
Counted(n) == Min(2, n + 1)

\* Removes the last occurrence of cb from queue q: cancelAnimationFrame of the
\* most recently requested callback of that kind (the id a field such as rafId holds)
RECURSIVE CancelLast(_, _)
CancelLast(q, cb) ==
  IF q = <<>> THEN <<>>
  ELSE IF q[Len(q)] = cb THEN SubSeq(q, 1, Len(q) - 1)
       ELSE Append(CancelLast(SubSeq(q, 1, Len(q) - 1), cb), q[Len(q)])

Count(q, cb) == Cardinality({i \in 1..Len(q) : q[i] = cb})

----------------------------------------------------------------------------
\* ProgressController

\* visualProgress += (targetProgress - visualProgress) * 0.18, with a wrong factor of 1.8
SmoothStepOvershoot(v, t) == v + RoundDiv((t - v) * KNum * 10, KDen)

\* visualProgress += (targetProgress - visualProgress) * 0.18
SmoothStep(v, t) == v + RoundDiv((t - v) * KNum, KDen)

\* the loop stops only on exact equality
StillMovingExact(v, t) == v # t

\* Math.abs(targetProgress - visualProgress) > 0.002 : the loop goes on
StillMoving(v, t) == Abs(t - v) > Eps

\* startProgressSmoothing that forgets to cancel the pending request
StartSmoothingNoCancel(q, id) == Append(q, "smooth")

\* startProgressSmoothing: cancel the pending request, if any, and request a new one
\* (q: the scheduler queue, id: whether this.rafId is set), giving the new queue
StartSmoothing(q, id) ==
  Append(IF id THEN CancelLast(q, "smooth") ELSE q, "smooth")

\* setTargetProgress(value); a handler that goes on requesting frames gives the
\* queue the call leaves as StartSmoothing(rafQueue, rafId) itself
SetTargetProgress(value) ==
  /\ targetProgress' = Clamp01(value)
  /\ rafQueue' = StartSmoothing(rafQueue, rafId)
  /\ rafId' = TRUE
  /\ UNCHANGED <<visualProgress, delivered>>

\* a setProgressImmediate that goes through startProgressSmoothing as well
SetImmediateSmoothing(value) ==
  /\ visualProgress' = Clamp01(value)
  /\ targetProgress' = Clamp01(value)
  /\ delivered' = Clamp01(value)
  /\ updates' = 1
  /\ rafQueue' = StartSmoothing(rafQueue, rafId)
  /\ rafId' = TRUE

\* setProgressImmediate(value)
SetProgressImmediate(value) ==
  /\ visualProgress' = Clamp01(value)
  /\ targetProgress' = Clamp01(value)
  /\ delivered' = Clamp01(value)
  /\ updates' = 1
  /\ UNCHANGED <<rafId, rafQueue>>

\* a dispose that clears rafId and leaves the requested frame in place
DisposeKeepsRequest ==
  /\ rafQueue' = rafQueue
  /\ rafId' = FALSE
  /\ UNCHANGED <<visualProgress, targetProgress, delivered>>

\* dispose()
DisposeProgress ==
  /\ rafQueue' = (IF rafId THEN CancelLast(rafQueue, "smooth") ELSE rafQueue)
  /\ rafId' = FALSE
  /\ UNCHANGED <<visualProgress, targetProgress, delivered>>

\* main.ts, startProgressSmoothing: if (rafId !== null) return; else request a frame
StartSmoothingOnce(q, id) == IF id THEN q ELSE Append(q, "smooth")

\* a setLoadProgress that clamps the value and forgets the target reached so far
SetLoadProgressClamped(value) ==
  /\ targetProgress' = Clamp01(value)
  /\ rafQueue' = StartSmoothingOnce(rafQueue, rafId)
  /\ rafId' = TRUE
  /\ UNCHANGED <<visualProgress, delivered>>

\* main.ts, setLoadProgress(value): the target never goes back
SetLoadProgress(value) ==
  /\ targetProgress' = Min(One, Max(targetProgress, value))
  /\ rafQueue' = StartSmoothingOnce(rafQueue, rafId)
  /\ rafId' = TRUE
  /\ UNCHANGED <<visualProgress, delivered>>

\* the tick callback of startProgressSmoothing (the same code in ProgressController
\* and in main.ts), run as the head of the frame
Tick ==
  /\ running # <<>> /\ Head(running) = "smooth"
  /\ running' = Tail(running)
  /\ LET v1 == SmoothStep(visualProgress, targetProgress) IN
       IF StillMoving(v1, targetProgress)
       THEN /\ visualProgress' = v1
            /\ delivered' = v1
            /\ rafQueue' = Append(rafQueue, "smooth")
            /\ rafId' = TRUE
       ELSE /\ visualProgress' = targetProgress
            /\ delivered' = targetProgress
            /\ rafQueue' = rafQueue
            /\ rafId' = FALSE
  /\ UNCHANGED targetProgress

----------------------------------------------------------------------------
\* Animation-frame scheduler

\* the browser starts a frame: the callbacks pending now are the ones it runs
FrameBegin ==
  /\ running = <<>> /\ rafQueue # <<>>
  /\ running' = rafQueue
  /\ rafQueue' = <<>>

BetweenFrames == running = <<>>

----------------------------------------------------------------------------
\* Stand-alone smoothing controller (the ProgressController class, or the inline
\* controller of main.ts): any API call between frames, any tick

\* values handed to setTargetProgress / setProgressImmediate, out of range included
Inputs == { -(One \div 2), 0, T03, T08, One, One + One \div 2 }

\* value of lastArg while no call with an argument has been made: a number no
\* caller of the runs passes
NoArg == -(2 * One)

\* value of lastModeArg while handle.setMode has not been called
NoMode == "<none>"

\* value of reaction while no listener that calls setPhase is registered
NoReaction == [on |-> "none", to |-> "none"]

\* value of twin while no second page runs
NoTwin == [kind |-> "none"]

\* no CRT loader created, no worker started (n: the commands a harness may issue)
LoaderFresh(n) ==
  /\ hKind = "none" /\ canvasOpacity = "1" /\ chan = <<>> /\ cmdsLeft = n
  /\ lastModeArg = NoMode /\ lastModeFlag = -1 /\ hDestroys = 0
  /\ wPreloader = FALSE /\ wClosed = FALSE /\ wThrew = FALSE /\ wPreInit = 0
  /\ rKind = "none" /\ rProgress = 0 /\ rScanline = 0 /\ rMode = 0 /\ rStopped = FALSE
  /\ rDestroy = FALSE /\ rProgram = "none" /\ rOdd = FALSE
  /\ twin = NoTwin

\* asset names and callers of the AssetManager runs
AssetNames == {"a", "b"}
Callers == 1..MaxCallers

\* value of a caller's entry while it has not called loadAsset
NotCalled == [name |-> "", st |-> "idle", load |-> 0]

\* the AssetManager singleton just constructed: both maps empty
AssetsFresh ==
  /\ assets = [n \in AssetNames |-> <<>>]
  /\ cache = [n \in AssetNames |-> 0]
  /\ loadingPromises = [n \in AssetNames |-> 0]
  /\ callers = [c \in Callers |-> NotCalled]

\* the systems that are constructed on a canvas: the CRT surface, the ore-three
\* Controller, the SceneManager and the scene layer
Systems == {"surface", "controller", "manager", "layer"}

\* dispose() has not been called and no callback has thrown
NotDisposed == disposed = FALSE /\ crtDestroys = 0 /\ tickThrew = FALSE

\* the orchestrator, the unlock control and the surface before initialize()
AppIdle ==
  /\ initPc = "initCRT" /\ crt = FALSE /\ phase = "html-css"
  /\ frame = 0 /\ bootResolved = FALSE /\ canvasDisplay = "block"
  /\ loadingStarted = FALSE /\ loadPc = "notStarted" /\ setSinceUnlock = FALSE
  /\ listeners = <<>> /\ notified = <<>> /\ phaseArg = "none"
  /\ uStarted = FALSE /\ uDragging = FALSE /\ uProgress = 0 /\ uRemoved = FALSE
  /\ uStarts = 0 /\ uUnlocks = 0 /\ uFirst = "none" /\ uReported = -1
  /\ uControls = 0
  /\ AssetsFresh
  /\ NotDisposed
  /\ canvasOf = [sys \in Systems |-> "none"]
  /\ errored = FALSE /\ uHidden = FALSE
  /\ reaction = NoReaction /\ observed = <<>> /\ applied = <<>>
  /\ scenePc = "idle" /\ controllerMade = FALSE
  /\ sceneClasses = {} /\ layerCache = {} /\ currentSceneName = "none"
  /\ layers = <<>> /\ awaiting = <<>> /\ switchesLeft = MaxCmds /\ addedAgain = FALSE
  /\ crtMode = -1 /\ crtProgress = -1 /\ crtScanline = -1 /\ crtFinished = 0

\* a ProgressController just constructed, no frame requested
ProgressFresh ==
  /\ visualProgress = 0 /\ targetProgress = 0 /\ rafId = FALSE /\ delivered = -1
  /\ rafQueue = <<>> /\ running = <<>>

\* no stand-alone run: the ProgressController belongs to the orchestrator
HarnessIdle ==
  /\ variant = "class"
  /\ callsLeft = 0 /\ ticksSince = 0 /\ lastCall = "none" /\ prevVisual = -1
  /\ lastArg = NoArg /\ updates = 0

AppUnchanged == UNCHANGED <<appVars, lsnVars, unlVars, surfVars, loaderVars, assetVars, extVars>>

PCInit ==
  /\ ProgressFresh
  /\ variant \in {"class", "inline"}
  /\ callsLeft = MaxCalls /\ ticksSince = 0 /\ lastCall = "none" /\ prevVisual = -1
  /\ lastArg = NoArg /\ updates = 0
  /\ AppIdle /\ LoaderFresh(0)

PCSetTarget ==
  /\ BetweenFrames /\ callsLeft > 0 /\ variant = "class"
  /\ \E value \in Inputs : SetTargetProgress(value) /\ lastArg' = value
  /\ updates' = 0
  /\ callsLeft' = callsLeft - 1 /\ ticksSince' = 0 /\ lastCall' = "setTarget"
  /\ UNCHANGED <<running, variant, prevVisual>>
  /\ AppUnchanged

PCSetLoadProgress ==
  /\ BetweenFrames /\ callsLeft > 0 /\ variant = "inline"
  /\ \E value \in Inputs : SetLoadProgress(value) /\ lastArg' = value
  /\ updates' = 0
  /\ callsLeft' = callsLeft - 1 /\ ticksSince' = 0 /\ lastCall' = "setTarget"
  /\ UNCHANGED <<running, variant, prevVisual>>
  /\ AppUnchanged

PCSetImmediate ==
  /\ BetweenFrames /\ callsLeft > 0 /\ variant = "class"
  /\ \E value \in Inputs : SetProgressImmediate(value) /\ lastArg' = value
  /\ callsLeft' = callsLeft - 1 /\ lastCall' = "immediate"
  /\ UNCHANGED <<running, variant, ticksSince, prevVisual>>
  /\ AppUnchanged

PCDispose ==
  /\ BetweenFrames /\ callsLeft > 0 /\ variant = "class"
  /\ DisposeProgress
  /\ callsLeft' = callsLeft - 1 /\ lastCall' = "dispose"
  /\ lastArg' = NoArg /\ updates' = 0
  /\ UNCHANGED <<running, variant, ticksSince, prevVisual>>
  /\ AppUnchanged

PCFrame ==
  /\ FrameBegin
  /\ UNCHANGED <<pcVars, harnVars>>
  /\ AppUnchanged

PCTick ==
  /\ Tick
  /\ ticksSince' = ticksSince + 1
  /\ prevVisual' = visualProgress
  /\ updates' = (IF rafId' THEN 1 ELSE 2)     \* line 52, and line 60 on the last tick
  /\ UNCHANGED <<variant, callsLeft, lastCall, lastArg>>
  /\ AppUnchanged

PCNext ==
  PCSetTarget \/ PCSetLoadProgress \/ PCSetImmediate \/ PCDispose \/ PCFrame \/ PCTick

SpecPC == PCInit /\ [][PCNext]_vars

\* the browser serves every pending animation-frame request
FairPC == SpecPC /\ WF_vars(PCFrame) /\ WF_vars(PCTick)

----------------------------------------------------------------------------
\* Claims about the stand-alone ProgressController

SmoothPending == Count(rafQueue, "smooth") + Count(running, "smooth")

Halted == ~rafId /\ SmoothPending = 0

\* C1 (state part): a smoothing run started by setTargetProgress takes at most
\* MaxTicks ticks, and when it has halted the visual value is exactly the target,
\* no frame callback is pending and the callback last received the target
ConvergedWhenHalted ==
  lastCall = "setTarget" =>
    /\ ticksSince <= MaxTicks
    /\ rafId => SmoothPending = 1
    /\ ~rafId => /\ SmoothPending = 0
                 /\ visualProgress = targetProgress
                 /\ delivered = targetProgress

\* C1: after any sequence of setTargetProgress calls and ticks, once the calls
\* stop the smoothing loop halts within MaxTicks ticks with visual = target,
\* rafId null and the last delivered value equal to target
C1_Convergence ==
  /\ []ConvergedWhenHalted
  /\ (lastCall = "setTarget") ~> (lastCall # "setTarget" \/ Halted)

\* C1 witness: a run of setTargetProgress calls has halted on a target other than 0
\* after at least one tick
C1_Witness ==
  /\ lastCall = "setTarget" /\ Halted /\ ticksSince > 1
  /\ targetProgress = T03 /\ visualProgress = T03 /\ delivered = T03
  /\ callsLeft = 0

\* C9: at most one smoothing frame callback is pending at any time, and exactly
\* one while rafId is set (so two setTargetProgress calls in a row leave one)
C9_SingleDriver ==
  /\ SmoothPending <= 1
  /\ (lastCall = "setTarget" /\ ticksSince = 0) => SmoothPending = 1

\* C9 witness: two setTargetProgress calls in a row with no tick between them
C9_Witness ==
  /\ lastCall = "setTarget" /\ ticksSince = 0 /\ callsLeft = MaxCalls - 2
  /\ delivered = -1 /\ SmoothPending = 1

\* C35: with the inline controller of main.ts, for every sequence of
\* setLoadProgress calls and ticks the target never goes down and stays in
\* [0,1], the visual value never passes it, and so the visual value never goes
\* down either
C35_LoadProgressMonotone ==
  /\ [](variant = "inline" =>
          /\ targetProgress \in 0..One
          /\ visualProgress \in 0..targetProgress)
  /\ [][variant = "inline" =>
          /\ targetProgress' >= targetProgress
          /\ visualProgress' >= visualProgress]_vars

\* C35 witness: setLoadProgress(0.8), then setLoadProgress(0.3) left the target at
\* 0.8, and the ticks brought the visual value up to it
C35_Witness ==
  /\ variant = "inline" /\ lastCall = "setTarget" /\ lastArg = T03
  /\ targetProgress = T08 /\ visualProgress = T08 /\ ~rafId /\ ticksSince > 0

\* the step is a setProgressImmediate call
ImmediateCalled == callsLeft' # callsLeft /\ lastCall' = "immediate"

\* C24: setProgressImmediate(v) sets visual and target both to v clamped to
\* [0,1], invokes the update callback exactly once, synchronously, with that
\* value, and schedules no frame callback: the pending callbacks and rafId are
\* the same before and after the call
C24_ImmediateSet ==
  [][ImmediateCalled =>
       /\ lastArg' <= 0 => visualProgress' = 0
       /\ lastArg' >= One => visualProgress' = One
       /\ (0 <= lastArg' /\ lastArg' <= One) => visualProgress' = lastArg'
       /\ targetProgress' = visualProgress'
       /\ delivered' = visualProgress' /\ updates' = 1
       /\ UNCHANGED <<rafQueue, running, rafId>>
    ]_vars

\* C24 witness: setProgressImmediate(1.5) was called while a smoothing callback
\* was pending: both values are 1, the callback received 1, the loop is pending
C24_Witness ==
  /\ lastCall = "immediate" /\ lastArg = One + One \div 2 /\ updates = 1
  /\ visualProgress = One /\ targetProgress = One /\ delivered = One
  /\ rafId /\ SmoothPending = 1 /\ ticksSince = 0

\* the step is a dispose call
DisposeCalled == callsLeft' # callsLeft /\ lastCall' = "dispose"

\* C25: dispose() leaves no smoothing frame callback pending and leaves visual
\* and target unchanged; a second dispose() changes nothing; after dispose() the
\* update callback is not invoked again unless setTargetProgress or
\* setProgressImmediate is called (no tick can run, the controller stays as it is)
C25_Dispose ==
  /\ [][DisposeCalled =>
          /\ ~rafId'
          /\ Count(rafQueue', "smooth") + Count(running', "smooth") = 0
          /\ UNCHANGED <<visualProgress, targetProgress, delivered>>
          /\ updates' = 0
          /\ lastCall = "dispose" => UNCHANGED <<pcVars, schedVars>>
       ]_vars
  /\ [](lastCall = "dispose" => (Halted /\ updates = 0))
  /\ [][(lastCall = "dispose" /\ lastCall' = "dispose")
          => UNCHANGED <<pcVars, schedVars, updates>>]_vars

\* C25 witness: dispose() was called twice on a controller whose smoothing loop
\* had run and was still short of its target
C25_Witness ==
  /\ lastCall = "dispose" /\ callsLeft = 0 /\ Halted
  /\ targetProgress = One /\ visualProgress > 0 /\ visualProgress < T05
  /\ delivered = visualProgress

----------------------------------------------------------------------------
\* One smoothing step as a function: every visual value, a grid of targets

GridTargets == { (k * One) \div 8 : k \in 0..8 } \cup { T03, Thr }

StepInit ==
  /\ visualProgress \in 0..One /\ targetProgress \in GridTargets
  /\ prevVisual = -1
  /\ rafId = FALSE /\ delivered = -1
  /\ rafQueue = <<>> /\ running = <<>>
  /\ variant = "class" /\ callsLeft = 0 /\ ticksSince = 0 /\ lastCall = "none"
  /\ lastArg = NoArg /\ updates = 0
  /\ AppIdle /\ LoaderFresh(0)

\* line 49 of the tick alone: visualProgress += (targetProgress - visualProgress) * 0.18
ApplyStep ==
  /\ prevVisual = -1
  /\ prevVisual' = visualProgress
  /\ visualProgress' = SmoothStep(visualProgress, targetProgress)
  /\ UNCHANGED <<targetProgress, rafId, delivered, schedVars>>
  /\ UNCHANGED <<variant, callsLeft, ticksSince, lastCall, lastArg, updates>>
  /\ AppUnchanged

SpecStep == StepInit /\ [][ApplyStep]_vars

Stepped == prevVisual # -1

\* the step did not carry the visual value to the other side of the target
NotPastTarget ==
  /\ prevVisual <= targetProgress => visualProgress <= targetProgress
  /\ prevVisual >= targetProgress => visualProgress >= targetProgress

----------------------------------------------------------------------------
\* createCRTLoader: the handle's mode mapping (worker and main-thread handle alike)

\* a mapping that tests for "boot" instead: "boot" gives 0, any other string 1
ModeFlagBootElse(mode) == IF mode = "boot" THEN 0 ELSE 1

\* mode === 'scanline' ? 1 : 0
ModeFlag(mode) == IF mode = "scanline" THEN 1 ELSE 0

----------------------------------------------------------------------------
\* AppState

Phases == <<"html-css", "crt-power-on", "idle", "scanline-loader", "scene">>

\* position of a phase in the AppPhase enum
PhaseRank(p) == CHOOSE i \in 1..Len(Phases) : Phases[i] = p

\* setPhase(p) in the orchestrator, whose AppState has no listener registered:
\* the phase becomes p
SetPhase(p) == phase' = p

\* a setPhase that does not compare with the current phase
PhaseChangesAlways(p) == TRUE

\* if (this.currentPhase !== phase)
PhaseChanges(p) == phase # p

\* the listener that calls setPhase from inside its invocation
Reactor == "r"

\* this.listeners.forEach(listener => listener(phase)) from listener i on, the
\* current phase being cur: each call is logged with the phase passed and the
\* phase getCurrentPhase() returns during it; the Reactor invoked with
\* reaction.on calls setPhase(reaction.to), which, if that is not the current
\* phase, assigns it and runs its own forEach over all listeners before the
\* outer forEach goes on
RECURSIVE Deliver(_, _, _, _)
Deliver(ls, i, p, cur) ==
  IF i > Len(ls) THEN [log |-> <<>>, cur |-> cur, applied |-> <<>>]
  ELSE LET nested == IF ls[i] = Reactor /\ reaction.on = p /\ reaction.to # cur
                     THEN LET d == Deliver(ls, 1, reaction.to, reaction.to)
                          IN  [d EXCEPT !.applied = <<reaction.to>> \o @]
                     ELSE [log |-> <<>>, cur |-> cur, applied |-> <<>>]
           rest == Deliver(ls, i + 1, p, nested.cur)
       IN  [log |-> <<<<ls[i], p, cur>>>> \o nested.log \o rest.log,
            cur |-> rest.cur,
            applied |-> nested.applied \o rest.applied]

----------------------------------------------------------------------------
\* AppState alone: any sequence of setPhase, onPhaseChange and removeListener

\* listener functions a caller can register
ListenerIds == {"f", "g", "h"}

StateUnchanged ==
  /\ UNCHANGED <<pcVars, schedVars, unlVars, surfVars, loaderVars, assetVars>>
  /\ UNCHANGED <<dispVars, canvasOf, errVars, sceneVars>>
  /\ UNCHANGED <<variant, ticksSince, prevVisual, lastArg, updates>>
  /\ UNCHANGED <<initPc, crt, frame, bootResolved, canvasDisplay, loadingStarted,
                 loadPc, setSinceUnlock>>

StateInit ==
  /\ ProgressFresh
  /\ variant = "class" /\ callsLeft = MaxCalls + 1
  /\ ticksSince = 0 /\ lastCall = "none" /\ prevVisual = -1
  /\ lastArg = NoArg /\ updates = 0
  /\ AppIdle /\ LoaderFresh(0)

\* appState.setPhase(p)
ASetPhase ==
  /\ callsLeft > 0
  /\ callsLeft' = callsLeft - 1 /\ lastCall' = "setPhase"
  /\ \E p \in {Phases[i] : i \in 1..Len(Phases)} :
       /\ phaseArg' = p
       /\ IF PhaseChanges(p)
          THEN LET d == Deliver(listeners, 1, p, p) IN
               /\ phase' = d.cur
               /\ notified' = [i \in 1..Len(d.log) |-> <<d.log[i][1], d.log[i][2]>>]
               /\ observed' = d.log
               /\ applied' = <<p>> \o d.applied
          ELSE /\ notified' = <<>>
               /\ observed' = <<>>
               /\ applied' = <<>>
               /\ UNCHANGED phase
  /\ UNCHANGED <<listeners, reaction>>
  /\ StateUnchanged

\* appState.onPhaseChange(listener)
AOnPhaseChange ==
  /\ callsLeft > 0
  /\ callsLeft' = callsLeft - 1 /\ lastCall' = "onPhaseChange"
  /\ \E l \in ListenerIds : listeners' = Append(listeners, l)
  /\ UNCHANGED <<phase, notified, phaseArg, reentVars>>
  /\ StateUnchanged

\* appState.removeListener(listener)
ARemoveListener ==
  /\ callsLeft > 0
  /\ callsLeft' = callsLeft - 1 /\ lastCall' = "removeListener"
  /\ \E l \in ListenerIds : listeners' = SelectSeq(listeners, LAMBDA x : x # l)
  /\ UNCHANGED <<phase, notified, phaseArg, reentVars>>
  /\ StateUnchanged

StateNext == ASetPhase \/ AOnPhaseChange \/ ARemoveListener

SpecState == StateInit /\ [][StateNext]_vars

\* appState.onPhaseChange(listener) with a listener that calls setPhase(to) when
\* it is invoked with phase on
AOnPhaseChangeReactor ==
  /\ callsLeft > 0 /\ reaction = NoReaction
  /\ callsLeft' = callsLeft - 1 /\ lastCall' = "onPhaseChange"
  /\ listeners' = Append(listeners, Reactor)
  /\ \E on, to \in {Phases[i] : i \in 1..Len(Phases)} :
       reaction' = [on |-> on, to |-> to]
  /\ UNCHANGED <<phase, notified, phaseArg, observed, applied>>
  /\ StateUnchanged

ReentrantNext == StateNext \/ AOnPhaseChangeReactor

SpecReentrant == StateInit /\ [][ReentrantNext]_vars

\* the phases listener l was invoked with during the last setPhase, in order
SeenBy(l) ==
  LET mine == SelectSeq(observed, LAMBDA c : c[1] = l)
  IN  [i \in 1..Len(mine) |-> mine[i][2]]

\* the calls of the last setPhase passed the current phase, and each listener
\* registered once was passed the phases in the order they were assigned
Consistent ==
  /\ \A i \in 1..Len(observed) : observed[i][2] = observed[i][3]
  /\ \A i \in 1..Len(listeners) :
       Count(listeners, listeners[i]) = 1 => SeenBy(listeners[i]) = applied

\* C36 as stated: whenever a listener is invoked with phase p, getCurrentPhase()
\* returns p, and every listener observes the phase changes in the order they
\* were applied, including when a listener itself calls setPhase during
\* notification
C36_ListenerConsistency ==
  [][(callsLeft' < callsLeft /\ lastCall' = "setPhase" /\ phase' # phase) => Consistent']_vars

\* the step is a setPhase call
SetPhaseCalled == callsLeft' # callsLeft /\ lastCall' = "setPhase"

\* C12: setPhase(p) with p the current phase changes nothing and notifies no
\* listener; with a different p it updates the phase and invokes every registered
\* listener once per registration, in registration order, with p
C12_Notification ==
  [][SetPhaseCalled =>
       /\ UNCHANGED listeners
       /\ IF phaseArg' = phase
          THEN phase' = phase /\ notified' = <<>>
          ELSE /\ phase' = phaseArg'
               /\ Len(notified') = Len(listeners)
               /\ \A i \in 1..Len(listeners) : notified'[i] = <<listeners[i], phaseArg'>>
    ]_vars

\* C12 witness: two listeners registered, and a setPhase with a new phase has
\* just notified them in registration order
C12_Witness ==
  /\ lastCall = "setPhase" /\ phaseArg = "idle" /\ phase = "idle"
  /\ listeners = <<"g", "f">>
  /\ notified = << <<"g", "idle">>, <<"f", "idle">> >>

----------------------------------------------------------------------------
\* AppController

\* a surface call made without looking at the reference
UnguardedSurface == TRUE

\* if (this.crt): the guard in front of every call on the surface
HasSurface == crt

\* the progress callback of the constructor: if (this.crt) this.crt.setProgress(progress)
ForwardProgress(value) == crtProgress' = (IF HasSurface THEN value ELSE crtProgress)

\* the canvas initCRT hands to createCRTLoader: this.crtCanvas
SurfaceCanvas == "crt"

\* a scene pipeline constructed on the canvas of the CRT surface
SceneCanvasShared == "crt"

\* the canvas startSceneLoading hands to the Controller, the SceneManager and,
\* through it, the layer: this.mainCanvas
SceneCanvas == "main"

\* the systems of set made are constructed on canvas c
Construct(made, c) == [sys \in Systems |-> IF sys \in made THEN c ELSE canvasOf[sys]]

\* initCRT(): createCRTLoader resolves with a handle, or throws
InitCRT ==
  /\ BetweenFrames /\ initPc = "initCRT"
  /\ \E ok \in BOOLEAN :
       /\ crt' = ok
       /\ canvasDisplay' = (IF ok THEN canvasDisplay ELSE "none")
       /\ canvasOf' = (IF ok THEN Construct({"surface"}, SurfaceCanvas) ELSE canvasOf)
  /\ initPc' = "powerOn"
  /\ UNCHANGED <<pcVars, schedVars, harnVars, unlVars, surfVars>>
  /\ UNCHANGED <<phase, frame, bootResolved, loadingStarted, loadPc, setSinceUnlock>>
  /\ UNCHANGED <<lsnVars, loaderVars, assetVars, dispVars, moreVars>>

\* playCRTPowerOn(), up to the first requestAnimationFrame
PlayCRTPowerOn ==
  /\ BetweenFrames /\ initPc = "powerOn"
  /\ initPc' = "awaitBoot"
  /\ IF ~crt
     THEN /\ bootResolved' = TRUE
          /\ UNCHANGED <<phase, frame, crtMode, crtProgress, rafQueue>>
     ELSE /\ SetPhase("crt-power-on")
          /\ frame' = 0
          /\ crtMode' = ModeFlag("boot")
          /\ crtProgress' = 0
          /\ rafQueue' = Append(rafQueue, "boot")
          /\ UNCHANGED bootResolved
  /\ UNCHANGED <<pcVars, running, harnVars, unlVars, crtScanline, crtFinished>>
  /\ UNCHANGED <<crt, canvasDisplay, loadingStarted, loadPc, setSinceUnlock>>
  /\ UNCHANGED <<lsnVars, loaderVars, assetVars, extVars>>

\* a boot value computed against one frame too many: it never reaches 1
BootProgressShort(k) == Min(One, RoundDiv(k * One, Frames + 1))

\* Math.min(1, frame / frames)
BootProgress(k) == Min(One, RoundDiv(k * One, Frames))

\* the tick callback of playCRTPowerOn; this.crt!.setProgress(...) throws a
\* TypeError when the reference has become null, and the loop ends there
BootTick ==
  /\ running # <<>> /\ Head(running) = "boot"
  /\ running' = Tail(running)
  /\ frame' = frame + 1
  /\ IF crt
     THEN /\ crtProgress' = BootProgress(frame')
          /\ IF frame' < Frames
             THEN /\ rafQueue' = Append(rafQueue, "boot")
                  /\ UNCHANGED <<phase, bootResolved>>
             ELSE /\ SetPhase("idle")
                  /\ bootResolved' = TRUE
                  /\ UNCHANGED rafQueue
          /\ UNCHANGED tickThrew
     ELSE /\ tickThrew' = TRUE
          /\ UNCHANGED <<crtProgress, rafQueue, phase, bootResolved>>
  /\ UNCHANGED <<pcVars, harnVars, unlVars, crtMode, crtScanline, crtFinished>>
  /\ UNCHANGED <<initPc, crt, canvasDisplay, loadingStarted, loadPc, setSinceUnlock>>
  /\ UNCHANGED <<lsnVars, loaderVars, assetVars, disposed, crtDestroys, canvasOf, moreVars>>

\* initialize() goes on to initUnlocker() without waiting for the power-on promise
PowerOnNotAwaited == initPc = "awaitBoot"

\* await this.playCRTPowerOn(): initialize() goes on once the promise is resolved
PowerOnAwaited == initPc = "awaitBoot" /\ bootResolved

\* initUnlocker(): createUnlocker registers the three callbacks
InitUnlocker ==
  /\ BetweenFrames /\ PowerOnAwaited
  /\ initPc' = "done"
  /\ uControls' = Counted(uControls)
  /\ UNCHANGED <<pcVars, schedVars, harnVars, surfVars>>
  /\ UNCHANGED <<uStarted, uDragging, uProgress, uRemoved, uStarts, uUnlocks, uFirst,
                 uReported>>
  /\ UNCHANGED <<crt, phase, frame, bootResolved, canvasDisplay, loadingStarted,
                 loadPc, setSinceUnlock>>
  /\ UNCHANGED <<lsnVars, loaderVars, assetVars, extVars>>

\* the test of checkProgress with a threshold of 0.8
ReadyToFinishEarly == visualProgress > T08

\* a checkProgress that waits for the value 1 itself
ReadyToFinishExact == visualProgress >= One

\* this.progressController.getCurrentProgress() > 0.995
ReadyToFinish == visualProgress > Thr

\* checkProgress() of waitForSceneReady, leaving the scheduler queue q
CheckProgress(q) ==
  IF ReadyToFinish
  THEN /\ crtFinished' = (IF HasSurface THEN crtFinished + 1 ELSE crtFinished)
       /\ canvasDisplay' = (IF HasSurface THEN "none" ELSE canvasDisplay)
       /\ SetPhase("scene")
       /\ rafQueue' = q
  ELSE /\ rafQueue' = Append(q, "poll")
       /\ UNCHANGED <<crtFinished, canvasDisplay, phase>>

\* checkProgress run as an animation-frame callback
PollTick ==
  /\ running # <<>> /\ Head(running) = "poll"
  /\ running' = Tail(running)
  /\ CheckProgress(rafQueue)
  /\ UNCHANGED <<pcVars, harnVars, unlVars, crtMode, crtProgress, crtScanline>>
  /\ UNCHANGED <<initPc, crt, frame, bootResolved, loadingStarted, loadPc, setSinceUnlock>>
  /\ UNCHANGED <<lsnVars, loaderVars, assetVars, extVars>>

\* the smoothing tick with the orchestrator's progress callback
SmoothTick ==
  /\ Tick
  /\ ForwardProgress(delivered')
  /\ UNCHANGED <<harnVars, appVars, unlVars, crtMode, crtScanline, crtFinished>>
  /\ UNCHANGED <<lsnVars, loaderVars, assetVars, extVars>>

AppFrame ==
  /\ FrameBegin
  /\ UNCHANGED <<pcVars, harnVars, appVars, unlVars, surfVars>>
  /\ UNCHANGED <<lsnVars, loaderVars, assetVars, extVars>>

\* ---- callbacks handed to createUnlocker (initUnlocker)

\* an onStart without its guard
NeverStarted == FALSE

\* if (this.loadingStarted) return
AlreadyStarted == loadingStarted

\* onStart
OnStart ==
  IF AlreadyStarted
  THEN UNCHANGED <<loadingStarted, phase, crtMode, loadPc>>
  ELSE /\ loadingStarted' = TRUE
       /\ SetPhase("scanline-loader")
       /\ crtMode' = (IF HasSurface THEN ModeFlag("scanline") ELSE crtMode)
       /\ loadPc' = "importOre"      \* void this.startSceneLoading(), to its first await

\* onProgress(p)
OnProgress(p) == crtScanline' = (IF HasSurface THEN p ELSE crtScanline)

\* onUnlock: setTargetProgress(1), then waitForSceneReady()
OnUnlock ==
  /\ targetProgress' = Clamp01(One)
  /\ rafId' = TRUE
  /\ CheckProgress(StartSmoothing(rafQueue, rafId))
  /\ UNCHANGED <<visualProgress, delivered>>

\* ---- the unlock control (createUnlocker)

\* drag positions a pointer move can give: progress = clamp(dx / max)
DragValues == { 0, One \div 2, U95, U95 + 1, One }

\* the callback invoked first, once the control invokes cb
FirstCallback(cb) == IF uFirst = "none" THEN cb ELSE uFirst

\* a release test that lets the threshold itself through
PastThresholdInclusive == uProgress >= U95

\* if (progress > 0.95)
PastThreshold == uProgress > U95

\* handlePointerDown, on the thumb of a control that is still in the document
\* and displayed
PointerDown ==
  /\ BetweenFrames /\ initPc = "done" /\ ~uRemoved /\ ~uHidden
  /\ uDragging' = TRUE
  /\ uStarted' = TRUE
  /\ IF ~uStarted
     THEN /\ OnStart
          /\ uStarts' = Counted(uStarts)
          /\ uFirst' = FirstCallback("onStart")
     ELSE UNCHANGED <<loadingStarted, phase, crtMode, loadPc, uStarts, uFirst>>
  /\ UNCHANGED <<pcVars, schedVars, harnVars, uProgress, uRemoved, uUnlocks, uReported,
                 uControls>>
  /\ UNCHANGED <<initPc, crt, frame, bootResolved, canvasDisplay, setSinceUnlock>>
  /\ UNCHANGED <<crtProgress, crtScanline, crtFinished>>
  /\ UNCHANGED <<lsnVars, loaderVars, assetVars, extVars>>

\* handlePointerMove
PointerMove ==
  /\ BetweenFrames /\ initPc = "done" /\ uDragging
  /\ \E p \in DragValues :
       /\ uProgress' = p
       /\ OnProgress(p)
       /\ uReported' = p
  /\ uFirst' = FirstCallback("onProgress")
  /\ UNCHANGED <<pcVars, schedVars, harnVars, appVars, uStarted, uDragging, uRemoved>>
  /\ UNCHANGED <<uStarts, uUnlocks, uControls>>
  /\ UNCHANGED <<crtMode, crtProgress, crtFinished>>
  /\ UNCHANGED <<lsnVars, loaderVars, assetVars, extVars>>

\* a control that stays in the document after onUnlock
KeptOnUnlock == FALSE

\* el.remove() after onUnlock: the control has removed itself
RemovedOnUnlock == TRUE

\* handlePointerUp
PointerUp ==
  /\ BetweenFrames /\ initPc = "done" /\ uDragging
  /\ uDragging' = FALSE
  /\ IF PastThreshold
     THEN /\ OnUnlock
          /\ uUnlocks' = Counted(uUnlocks)
          /\ uFirst' = FirstCallback("onUnlock")
          /\ uRemoved' = RemovedOnUnlock
          /\ UNCHANGED <<uProgress, crtScanline, uReported>>
     ELSE /\ uProgress' = 0
          /\ OnProgress(0)
          /\ uReported' = 0
          /\ uFirst' = FirstCallback("onProgress")
          /\ UNCHANGED <<pcVars, rafQueue, phase, canvasDisplay, crtFinished, uRemoved>>
          /\ UNCHANGED uUnlocks
  /\ UNCHANGED <<running, harnVars, uStarted, uStarts, uControls, crtMode, crtProgress>>
  /\ UNCHANGED <<initPc, crt, frame, bootResolved, loadingStarted, loadPc, setSinceUnlock>>
  /\ UNCHANGED <<lsnVars, loaderVars, assetVars, extVars>>

\* handlePointerCancel
PointerCancel ==
  /\ BetweenFrames /\ initPc = "done" /\ uDragging
  /\ uDragging' = FALSE
  /\ uProgress' = 0
  /\ OnProgress(0)
  /\ uReported' = 0
  /\ uFirst' = FirstCallback("onProgress")
  /\ UNCHANGED <<pcVars, schedVars, harnVars, appVars, uStarted, uRemoved>>
  /\ UNCHANGED <<uStarts, uUnlocks, uControls>>
  /\ UNCHANGED <<crtMode, crtProgress, crtFinished>>
  /\ UNCHANGED <<lsnVars, loaderVars, assetVars, extVars>>

\* ---- startSceneLoading(): one action per await, and the ways it can fail

LoadUnchanged ==
  /\ UNCHANGED <<visualProgress, delivered, running, harnVars, unlVars, surfVars>>
  /\ UNCHANGED <<initPc, crt, phase, frame, bootResolved, canvasDisplay, loadingStarted>>
  /\ UNCHANGED <<lsnVars, loaderVars, assetVars, dispVars, moreVars>>

\* a loading milestone: setTargetProgress(value) called once more right after a
\* first call when twice is set
Milestone(value, twice) ==
  /\ targetProgress' = Clamp01(value)
  /\ rafQueue' = (IF twice THEN StartSmoothing(StartSmoothing(rafQueue, rafId), TRUE)
                           ELSE StartSmoothing(rafQueue, rafId))
  /\ rafId' = TRUE
  /\ setSinceUnlock' = (setSinceUnlock \/ uRemoved)

\* import('ore-three') resolves: target 0.3, new Controller, target 0.5, new SceneManager
OreLoaded ==
  /\ BetweenFrames /\ loadPc = "importOre"
  /\ Milestone(T05, TRUE)
  /\ loadPc' = "importHero"
  /\ canvasOf' = Construct({"controller", "manager"}, SceneCanvas)
  /\ LoadUnchanged

\* import('ore-three') resolves, target 0.3, and the Controller constructor throws
ControllerThrows ==
  /\ BetweenFrames /\ loadPc = "importOre"
  /\ Milestone(T03, FALSE)
  /\ loadPc' = "failed"
  /\ UNCHANGED canvasOf
  /\ LoadUnchanged

\* import('../scenes/hero-layer') resolves
HeroLoaded ==
  /\ BetweenFrames /\ loadPc = "importHero"
  /\ loadPc' = "importDemo"
  /\ UNCHANGED <<targetProgress, rafQueue, rafId, setSinceUnlock>>
  /\ UNCHANGED canvasOf
  /\ LoadUnchanged

\* import('../scenes/demo-layer') resolves: registerScenes, target 0.8, switchToScene('hero')
DemoLoaded ==
  /\ BetweenFrames /\ loadPc = "importDemo"
  /\ Milestone(T08, FALSE)
  /\ loadPc' = "switchScene"
  /\ canvasOf' = Construct({"layer"}, SceneCanvas)   \* new SceneClass in switchToScene
  /\ LoadUnchanged

\* the target the sequence sets last, left at the 0.8 of the milestone before
FinalTargetStale == T08

\* this.progressController.setTargetProgress(1) after the initial scene
FinalTarget == One

\* switchToScene('hero') resolves: target 1
SceneSwitched ==
  /\ BetweenFrames /\ loadPc = "switchScene"
  /\ Milestone(FinalTarget, FALSE)
  /\ loadPc' = "done"
  /\ UNCHANGED canvasOf
  /\ LoadUnchanged

\* the awaited import or switchToScene rejects: nothing catches it
LoadRejects ==
  /\ BetweenFrames
  /\ loadPc \in {"importOre", "importHero", "importDemo", "switchScene"}
  /\ loadPc' = "failed"
  /\ UNCHANGED <<targetProgress, rafQueue, rafId, setSinceUnlock>>
  /\ UNCHANGED canvasOf
  /\ LoadUnchanged

----------------------------------------------------------------------------
\* The AppController whose onStart is async (src/src/core/app-state.ts 51-332):
\* initCRT, playCRTPowerOn, waitForSceneReady, onProgress and onUnlock are the
\* same code; onStart awaits initializeHeavy() before it sets the phase and the
\* mode, and startSceneLoading has the milestones 0.3, 0.7 and 1

\* onStart, to its first await: await this.initializeHeavy()
OnStartAsync ==
  IF loadingStarted
  THEN UNCHANGED <<loadingStarted, loadPc>>
  ELSE /\ loadingStarted' = TRUE
       /\ loadPc' = "initializeHeavy"

\* handlePointerDown with the async onStart
PointerDownAsync ==
  /\ BetweenFrames /\ initPc = "done" /\ ~uRemoved /\ ~uHidden
  /\ uDragging' = TRUE
  /\ uStarted' = TRUE
  /\ IF ~uStarted
     THEN /\ OnStartAsync
          /\ uStarts' = Counted(uStarts)
          /\ uFirst' = FirstCallback("onStart")
     ELSE UNCHANGED <<loadingStarted, loadPc, uStarts, uFirst>>
  /\ UNCHANGED <<pcVars, schedVars, harnVars, uProgress, uRemoved, uUnlocks, uReported,
                 uControls>>
  /\ UNCHANGED <<initPc, crt, phase, frame, bootResolved, canvasDisplay, setSinceUnlock>>
  /\ UNCHANGED surfVars
  /\ UNCHANGED <<lsnVars, loaderVars, assetVars, extVars>>

\* initializeHeavy() resolves: onStart goes on with setPhase(SCANLINE_LOADER),
\* setMode('scanline') and void this.startSceneLoading(), to its first await
InitializeHeavyDone ==
  /\ BetweenFrames /\ loadPc = "initializeHeavy"
  /\ SetPhase("scanline-loader")
  /\ crtMode' = (IF HasSurface THEN ModeFlag("scanline") ELSE crtMode)
  /\ loadPc' = "importOre"
  /\ UNCHANGED <<pcVars, schedVars, harnVars, unlVars, crtProgress, crtScanline, crtFinished>>
  /\ UNCHANGED <<initPc, crt, frame, bootResolved, canvasDisplay, loadingStarted,
                 setSinceUnlock>>
  /\ UNCHANGED <<lsnVars, loaderVars, assetVars, extVars>>

\* initializeHeavy() rejects: onStart rejects, nothing is started
InitializeHeavyRejects ==
  /\ BetweenFrames /\ loadPc = "initializeHeavy"
  /\ loadPc' = "failed"
  /\ UNCHANGED <<targetProgress, rafQueue, rafId, setSinceUnlock>>
  /\ UNCHANGED canvasOf
  /\ LoadUnchanged

\* import('ore-three') resolves: target 0.3, new Controller, loadWithProgress starts
OreLoadedAsync ==
  /\ BetweenFrames /\ loadPc = "importOre"
  /\ Milestone(T03, FALSE)
  /\ loadPc' = "importHero"
  /\ canvasOf' = Construct({"controller"}, SceneCanvas)
  /\ LoadUnchanged

\* loadWithProgress('../scenes/hero-layer', 0.7): the import resolves, target 0.7,
\* then switchToScene('hero') starts
HeroLoadedAsync ==
  /\ BetweenFrames /\ loadPc = "importHero"
  /\ Milestone(T07, FALSE)
  /\ loadPc' = "switchScene"
  /\ canvasOf' = Construct({"layer"}, SceneCanvas)   \* new SceneClass in switchToScene
  /\ LoadUnchanged

\* handleCriticalError(error), which the handler given to the error boundary
\* calls whenever the boundary reports an error
CriticalError ==
  /\ BetweenFrames /\ ~errored
  /\ errored' = TRUE
  /\ SetPhase("html-css")
  /\ canvasDisplay' = "none"
  /\ uHidden' = TRUE
  /\ UNCHANGED <<pcVars, schedVars, harnVars, unlVars, surfVars>>
  /\ UNCHANGED <<initPc, crt, frame, bootResolved, loadingStarted, loadPc, setSinceUnlock>>
  /\ UNCHANGED <<lsnVars, loaderVars, assetVars, dispVars, canvasOf, reentVars, sceneVars>>

NextAsync ==
  \/ InitCRT \/ PlayCRTPowerOn \/ BootTick \/ InitUnlocker
  \/ PointerDownAsync \/ PointerMove \/ PointerUp \/ PointerCancel
  \/ InitializeHeavyDone \/ InitializeHeavyRejects
  \/ OreLoadedAsync \/ ControllerThrows \/ HeroLoadedAsync \/ SceneSwitched
  \/ LoadRejects
  \/ AppFrame \/ SmoothTick \/ PollTick

----------------------------------------------------------------------------
\* The orchestrator from construction on

Init == ProgressFresh /\ HarnessIdle /\ AppIdle /\ LoaderFresh(0)

Next ==
  \/ InitCRT \/ PlayCRTPowerOn \/ BootTick \/ InitUnlocker
  \/ PointerDown \/ PointerMove \/ PointerUp \/ PointerCancel
  \/ OreLoaded \/ ControllerThrows \/ HeroLoaded \/ DemoLoaded \/ SceneSwitched
  \/ LoadRejects
  \/ AppFrame \/ SmoothTick \/ PollTick

Spec == Init /\ [][Next]_vars

SpecAsync == Init /\ [][NextAsync]_vars

\* the controller with the async onStart and its error boundary reporting one
\* error, at any time
NextError == NextAsync \/ CriticalError

SpecError == Init /\ [][NextError]_vars

\* LifecycleManager: the scenes of the controller

\* the names switchToScene is called with
SceneNames == {"hero", "demo"}

\* controller.addLayer(layer)
AddLayer(ls, name) == Append(ls, name)

\* controller.removeLayer(name)
RemoveLayer(ls, name) == SelectSeq(ls, LAMBDA x : x # name)

\* createAndInitializeScene(sceneName) for a name that has a class: the cached
\* layer or a new one, which is cached, is added to the controller
CreateAndInitializeScene(ls, name) ==
  /\ layerCache' = layerCache \cup {name}
  /\ layers' = AddLayer(ls, name)
  /\ addedAgain' = (addedAgain \/ Count(ls, name) > 0)

ScenesUnchanged ==
  /\ UNCHANGED <<visualProgress, delivered, running, harnVars, unlVars, surfVars>>
  /\ UNCHANGED <<initPc, crt, phase, frame, bootResolved, canvasDisplay, loadingStarted, loadPc>>
  /\ UNCHANGED <<lsnVars, loaderVars, assetVars, dispVars, errVars, reentVars>>

\* startSceneLoading() is called and waits for import('ore-three')
StartSceneLoading ==
  /\ BetweenFrames
  /\ scenePc = "idle"
  /\ scenePc' = "importOre"
  /\ UNCHANGED <<targetProgress, rafQueue, rafId, setSinceUnlock, canvasOf>>
  /\ UNCHANGED <<controllerMade, sceneClasses, layerCache, currentSceneName,
                 layers, awaiting, switchesLeft, addedAgain>>
  /\ ScenesUnchanged

\* import('ore-three') resolves: new Controller, target 0.3, and
\* loadSceneModules(['hero']) waits for the module of the hero scene
ControllerCreated ==
  /\ BetweenFrames
  /\ scenePc = "importOre"
  /\ scenePc' = "importHero"
  /\ controllerMade' = TRUE
  /\ Milestone(T03, FALSE)
  /\ canvasOf' = Construct({"controller"}, SceneCanvas)
  /\ UNCHANGED <<sceneClasses, layerCache, currentSceneName,
                 layers, awaiting, switchesLeft, addedAgain>>
  /\ ScenesUnchanged

\* the import of the hero module resolves: its class is stored, target 0.7,
\* createAndInitializeScene('hero'), target 1
InitialSceneCreated ==
  /\ BetweenFrames
  /\ scenePc = "importHero"
  /\ scenePc' = "done"
  /\ sceneClasses' = sceneClasses \cup {"hero"}
  /\ CreateAndInitializeScene(layers, "hero")
  /\ Milestone(One, TRUE)
  /\ canvasOf' = Construct({"layer"}, SceneCanvas)
  /\ UNCHANGED <<controllerMade, currentSceneName, awaiting, switchesLeft>>
  /\ ScenesUnchanged

\* switchToScene(sceneName) up to its await: nothing without a controller or
\* for a name without a class; else the layer named currentSceneName is
\* removed and createAndInitializeScene(sceneName) runs
SwitchToScene ==
  /\ BetweenFrames
  /\ switchesLeft > 0
  /\ switchesLeft' = switchesLeft - 1
  /\ \E name \in SceneNames :
       IF controllerMade /\ name \in sceneClasses
       THEN /\ CreateAndInitializeScene(
                 IF currentSceneName # "none" THEN RemoveLayer(layers, currentSceneName)
                                              ELSE layers, name)
            /\ awaiting' = Append(awaiting, name)
            /\ canvasOf' = Construct({"layer"}, SceneCanvas)
       ELSE UNCHANGED <<layerCache, layers, addedAgain, awaiting, canvasOf>>
  /\ UNCHANGED <<targetProgress, rafQueue, rafId, setSinceUnlock>>
  /\ UNCHANGED <<scenePc, controllerMade, sceneClasses, currentSceneName>>
  /\ ScenesUnchanged

\* switchToScene resumes after the await: this.currentSceneName = sceneName
SwitchResumes ==
  /\ BetweenFrames
  /\ awaiting # <<>>
  /\ currentSceneName' = Head(awaiting)
  /\ awaiting' = Tail(awaiting)
  /\ UNCHANGED <<targetProgress, rafQueue, rafId, setSinceUnlock, canvasOf>>
  /\ UNCHANGED <<scenePc, controllerMade, sceneClasses, layerCache,
                 layers, switchesLeft, addedAgain>>
  /\ ScenesUnchanged

ScenesNext ==
  \/ StartSceneLoading \/ ControllerCreated \/ InitialSceneCreated
  \/ SwitchToScene \/ SwitchResumes
  \/ AppFrame \/ SmoothTick

SpecScenes == Init /\ [][ScenesNext]_vars

\* C40 as stated: after any sequence of startSceneLoading and switchToScene
\* calls, getCurrentSceneName() is the name of the one layer currently added to
\* the controller, and no layer is added to the controller a second time
\* without having been removed first
C40_SceneBookkeeping ==
  /\ (scenePc = "done" /\ awaiting = <<>>) => layers = <<currentSceneName>>
  /\ ~addedAgain

\* The same orchestrator with a control that invokes onStart again, at any time
\* after createUnlocker has received the callbacks
OnStartAgain ==
  /\ BetweenFrames /\ initPc = "done"
  /\ OnStart
  /\ lastCall' = "onStart"
  /\ UNCHANGED <<pcVars, schedVars, unlVars, crtProgress, crtScanline, crtFinished>>
  /\ UNCHANGED <<variant, callsLeft, ticksSince, prevVisual, lastArg, updates>>
  /\ UNCHANGED <<initPc, crt, frame, bootResolved, canvasDisplay, setSinceUnlock>>
  /\ UNCHANGED <<lsnVars, loaderVars, assetVars, extVars>>

NextRestart == Next \/ OnStartAgain

SpecRestart == Init /\ [][NextRestart]_vars

\* The same orchestrator on a page whose unlocker element lacks .thumb, .fill or
\* .track: createUnlocker of unlocker.js logs and returns undefined, the
\* createUnlocker of part_018 throws, which initialize() rethrows
UnlockerBuilds == {"js", "ts"}

\* initUnlocker() on such an element
InitUnlockerIncomplete ==
  /\ BetweenFrames /\ PowerOnAwaited
  /\ \E build \in UnlockerBuilds :
       initPc' = (IF build = "js" THEN "unregistered" ELSE "rejected")
  /\ UNCHANGED <<pcVars, schedVars, harnVars, unlVars, surfVars>>
  /\ UNCHANGED <<crt, phase, frame, bootResolved, canvasDisplay, loadingStarted,
                 loadPc, setSinceUnlock>>
  /\ UNCHANGED <<lsnVars, loaderVars, assetVars, extVars>>

NextStruct == Next \/ InitUnlockerIncomplete

SpecStruct == Init /\ [][NextStruct]_vars

\* The same orchestrator with initialize() called once more after it has
\* resolved, while the control still waits for its first gesture
InitializeAgain ==
  /\ BetweenFrames /\ initPc = "done" /\ lastCall # "initialize" /\ ~uStarted
  /\ lastCall' = "initialize"
  /\ initPc' = "initCRT"
  /\ bootResolved' = FALSE             \* the promise of the new playCRTPowerOn call
  /\ UNCHANGED <<pcVars, schedVars, unlVars, surfVars>>
  /\ UNCHANGED <<variant, callsLeft, ticksSince, prevVisual, lastArg, updates>>
  /\ UNCHANGED <<crt, phase, frame, canvasDisplay, loadingStarted, loadPc, setSinceUnlock>>
  /\ UNCHANGED <<lsnVars, loaderVars, assetVars, extVars>>

NextReinit == Next \/ InitializeAgain

SpecReinit == Init /\ [][NextReinit]_vars

\* The same orchestrator with dispose() called once, at any time after construction
Dispose ==
  /\ BetweenFrames /\ ~disposed
  /\ disposed' = TRUE
  /\ crtDestroys' = (IF crt THEN crtDestroys + 1 ELSE crtDestroys)   \* this.crt.destroy?.()
  /\ crt' = FALSE
  /\ DisposeProgress
  /\ UNCHANGED <<running, harnVars, unlVars, surfVars, tickThrew>>
  /\ UNCHANGED <<initPc, phase, frame, bootResolved, canvasDisplay, loadingStarted, loadPc,
                 setSinceUnlock>>
  /\ UNCHANGED <<lsnVars, loaderVars, assetVars, canvasOf, moreVars>>

NextDispose == Next \/ Dispose

SpecDispose == Init /\ [][NextDispose]_vars

\* the browser serves every pending animation-frame request
FairSpec ==
  /\ Spec
  /\ WF_vars(AppFrame) /\ WF_vars(BootTick) /\ WF_vars(SmoothTick) /\ WF_vars(PollTick)

----------------------------------------------------------------------------
\* Claims about the orchestrator

Unlocked == uRemoved

PollScheduled == Count(rafQueue, "poll") + Count(running, "poll")

\* the unlock sequence is over: finish() was called on the surface if there is
\* one, the CRT canvas is hidden, the phase is scene and no poll is scheduled
Completed ==
  /\ phase = "scene"
  /\ crt => crtFinished >= 1
  /\ canvasDisplay = "none"
  /\ PollScheduled = 0

\* C2: once onUnlock has fired and the scene-loading sequence has completed
\* without error, eventually finish() is called, the CRT canvas is hidden and the
\* phase is scene, and from then on no polling callback is scheduled
C2_UnlockCompletes ==
  /\ (Unlocked /\ loadPc = "done") ~> Completed
  /\ [](phase = "scene" => PollScheduled = 0)

\* C2 witness: unlocked before loading was over, and completed after it
C2_Witness == Unlocked /\ setSinceUnlock /\ loadPc = "done" /\ crt /\ Completed

\* C3 as stated: if a step of the scene-loading sequence rejects, the target
\* still becomes 1, so after onUnlock the polling loop eventually ends in finish()
C3_ProgressCompletesOnFailure ==
  (Unlocked /\ loadPc = "failed") ~> (targetProgress = One /\ phase = "scene")

\* C4: the phase only moves forward in the order html-css < crt-power-on < idle
\* < scanline-loader < scene, so no phase is entered twice
C4_PhaseOrder ==
  [][phase' # phase => PhaseRank(phase') > PhaseRank(phase)]_vars

\* C4 witness: a run with a surface that went through every phase
C4_Witness == phase = "scene" /\ crt /\ frame = Frames /\ crtFinished = 1

\* C13 as stated: from onStart until finish(), the values forwarded to
\* surface.setProgress through the ProgressController callback never decrease,
\* for every interleaving of onUnlock with the loading milestones
C13_ForwardedNonDecreasing ==
  [][(crt /\ loadingStarted /\ crtFinished = 0 /\ delivered # -1 /\ delivered' # delivered)
       => delivered' >= delivered]_vars

\* the step makes a call on the surface although the reference is null, which
\* throws a TypeError
CallOnNull == ~crt /\ surfVars' # surfVars

\* C17: if createCRTLoader throws, the CRT canvas display is none and the surface
\* reference stays null, and no later step of the orchestrator makes a call on
\* the null reference (setProgress, setMode, setScanlinePhase, finish): none throws
C17_NullSurfaceSafe ==
  /\ []((initPc # "initCRT" /\ ~crt) => canvasDisplay = "none")
  /\ [][initPc # "initCRT" => UNCHANGED crt]_vars
  /\ [][~CallOnNull]_vars

\* C17 witness: createCRTLoader threw, and the run went through onStart,
\* onProgress, the smoothing ticks, onUnlock and the end of the polling loop
C17_Witness ==
  /\ ~crt /\ canvasDisplay = "none" /\ phase = "scene" /\ uRemoved
  /\ delivered = One /\ loadPc = "done"
  /\ crtMode = -1 /\ crtProgress = -1 /\ crtScanline = -1 /\ crtFinished = 0

\* C16: however many times onStart is invoked, startSceneLoading is started at
\* most once and the phase transition to scanline-loader is performed at most
\* once: both happen only in the step that sets loadingStarted, which stays set
C16_SingleLoadStart ==
  [][ /\ loadingStarted => loadingStarted'
      /\ (loadPc' = "importOre" /\ loadPc # "importOre")
           => (~loadingStarted /\ loadingStarted' /\ loadPc = "notStarted")
      /\ (phase' = "scanline-loader" /\ phase # "scanline-loader")
           => (~loadingStarted /\ loadingStarted')
      /\ loadPc # "notStarted" => loadPc' # "notStarted"
    ]_vars

\* C16 witness: onStart was invoked again after the loading sequence had moved
\* on and the phase had become scene, and changed neither
C16_Witness ==
  /\ lastCall = "onStart" /\ uStarted /\ loadingStarted
  /\ loadPc = "importHero" /\ phase = "scene"

\* the step runs a callback that follows the first onStart: onProgress (a move
\* or a reset of the control), onUnlock, or the completion of the polling loop
LaterCallback ==
  /\ uStarted
  /\ \/ uProgress' # uProgress
     \/ uRemoved' /\ ~uRemoved
     \/ phase' = "scene" /\ phase # "scene"

\* C15 as stated: the first onStart sets phase scanline-loader and mode scanline
\* before it yields, so every later onProgress or onUnlock callback and the
\* completion of the polling loop run with that phase and that mode already set
C15_HandoffBeforeCallbacks ==
  [][LaterCallback =>
       /\ phase = "scanline-loader"
       /\ crt => crtMode = 1]_vars

\* startSceneLoading has activated the initial scene (switchToScene resolved)
SceneActivated == loadPc = "done"

\* C14 as stated: finish() is called and phase scene is entered only after the
\* scene-loading sequence has activated the initial scene, and the loading
\* progress does not reach completion while scene loading is still in flight
C14_FinishAfterSceneReady ==
  /\ [][(crtFinished' # crtFinished \/ (phase' = "scene" /\ phase # "scene"))
          => SceneActivated]_vars
  /\ [](loadingStarted /\ visualProgress > Thr => SceneActivated)

\* the step ends a drag: a pointer up or a pointer cancel that found dragging set
DragEnds == uDragging /\ ~uDragging'

\* C26: for every sequence of pointer down, move, up and cancel events, onStart
\* is invoked at most once and before any onProgress or onUnlock; onUnlock is
\* invoked at most once and only on a release whose drag progress exceeds 0.95,
\* after which the control has removed itself; a release at or below 0.95 resets
\* progress to 0 and reports onProgress(0)
C26_UnlockContract ==
  /\ [](uStarts <= 1 /\ uUnlocks <= 1)
  /\ [](uFirst \in {"none", "onStart"})
  /\ [](uRemoved = (uUnlocks = 1))
  /\ [][uUnlocks' # uUnlocks => (DragEnds /\ uProgress > U95 /\ uRemoved')]_vars
  /\ [][(DragEnds /\ uProgress <= U95)
          => (uProgress' = 0 /\ uReported' = 0 /\ UNCHANGED <<uUnlocks, uRemoved>>)]_vars

\* C26 witness: a drag released just above 0.95 has invoked onUnlock, after the
\* one onStart, and the control has removed itself
C26_Witness ==
  /\ uStarts = 1 /\ uUnlocks = 1 /\ uRemoved /\ ~uDragging /\ uFirst = "onStart"
  /\ uProgress = U95 + 1 /\ uReported = U95 + 1
  /\ loadPc = "importOre" /\ targetProgress = One

\* initialize() has resolved
InitializeResolved == initPc \in {"done", "unregistered"}

\* C27 as stated: if the unlocker element lacks .thumb, .fill or .track,
\* initialize() rejects instead of completing without any unlock callbacks
\* registered: whenever initialize() has resolved, a control has registered them
C27_MissingStructureFatal == InitializeResolved => uControls >= 1

\* the step belongs to the second initialize() call: one of its stages completes
\* or its power-on loop ticks
SecondInitializeStep ==
  /\ lastCall = "initialize"
  /\ initPc' # initPc \/ frame' # frame

\* C28 as stated: calling initialize() again after it has completed leaves the
\* phase, the surface handle and the set of registered unlock callbacks
\* unchanged: no second boot sequence, no second surface, no second control
C28_InitializeIdempotent ==
  [][SecondInitializeStep => UNCHANGED <<phase, crt, canvasDisplay, uControls, surfVars>>]_vars

\* C30 as stated: after initialize() resolves the phase is idle and the unlock
\* callbacks are registered whether or not surface acquisition succeeded, and
\* the unlock gesture leads from idle through scanline-loader to scene
C30_DegradedStart ==
  /\ [](initPc = "done" => uControls = 1)
  /\ [](initPc = "done" /\ ~uStarted => phase = "idle")
  /\ [][uStarts' # uStarts => (phase = "idle" /\ phase' = "scanline-loader")]_vars
  /\ [][(phase' = "scene" /\ phase # "scene") => (uRemoved' /\ phase = "scanline-loader")]_vars

\* C32: whenever a surface exists and the phase is crt-power-on or idle, the last
\* mode flag sent to it is 0 (boot, and the "idle" of the immediate boot animation,
\* map to 0); whenever the phase is scanline-loader, between callbacks, the last
\* mode flag sent to the surface is 1 (without a surface no flag is sent at all)
C32_PhaseModeLinkage ==
  /\ ModeFlag("boot") = 0 /\ ModeFlag("idle") = 0 /\ ModeFlag("scanline") = 1
  /\ (crt /\ phase \in {"crt-power-on", "idle"}) => crtMode = 0
  /\ phase = "scanline-loader" => crtMode = (IF crt THEN 1 ELSE -1)

\* C32 witness: a surface that was in boot mode through crt-power-on and idle is
\* in scanline mode while the phase is scanline-loader and loading goes on
C32_Witness ==
  /\ crt /\ phase = "scanline-loader" /\ crtMode = 1 /\ frame = Frames
  /\ loadPc = "importHero" /\ uDragging

\* C34: the scene controller, the scene manager and every scene layer are
\* constructed against the main canvas only; no scene object is ever bound to the
\* CRT canvas, and the CRT render surface is never created on the main canvas
C34_OneSurfacePerSystem ==
  /\ canvasOf["surface"] \in {"none", "crt"}
  /\ \A sys \in Systems \ {"surface"} : canvasOf[sys] \in {"none", "main"}
  /\ crt => canvasOf["surface"] = "crt"

\* C34 witness: the surface ran on the CRT canvas, the controller, the manager and
\* the initial layer were constructed on the main canvas, and the phase is scene
C34_Witness ==
  /\ canvasOf = [sys \in Systems |-> IF sys = "surface" THEN "crt" ELSE "main"]
  /\ phase = "scene" /\ crtFinished = 1 /\ loadPc = "done"

\* C37 as stated: once handleCriticalError has set the phase to html-css and
\* hidden the CRT canvas and the unlocker, the phase stays html-css: no boot loop,
\* polling loop or loading callback still in flight changes it afterwards
C37_ErrorRecoveryFinal == errored => phase = "html-css"

\* the step ends a polling loop: checkProgress ran, as a frame callback or inside
\* onUnlock, and did not request another frame
PollEnds ==
  \/ PollScheduled' < PollScheduled
  \/ uUnlocks' # uUnlocks /\ PollScheduled' = PollScheduled

\* C39: in any run the orchestrator calls surface.finish() at most once and sets
\* phase scene at most once (only the end of a polling loop does either, and a
\* loop ends in a phase other than scene); at most one polling loop is ever
\* active, and none is started after the first onUnlock
C39_SingleCompletion ==
  /\ [](crtFinished <= 1 /\ PollScheduled <= 1 /\ uUnlocks <= 1)
  /\ [](PollScheduled = 1 => (uUnlocks = 1 /\ phase # "scene"))
  /\ [][PollEnds => (phase # "scene" /\ phase' = "scene")]_vars
  /\ [][((phase' = "scene" /\ phase # "scene") \/ crtFinished' # crtFinished) => PollEnds]_vars
  /\ [][PollScheduled' > PollScheduled => (uUnlocks = 0 /\ uUnlocks' = 1)]_vars

\* C39 witness: one polling loop ran over several frames while the milestones of
\* loading came in, then called finish() once and set phase scene
C39_Witness ==
  /\ crt /\ crtFinished = 1 /\ phase = "scene" /\ uUnlocks = 1
  /\ PollScheduled = 0 /\ rafQueue = <<>> /\ running = <<>>
  /\ visualProgress = One /\ loadPc = "done" /\ setSinceUnlock

\* C31 as stated: in every reachable state, including after dispose() is called
\* while the boot loop or the polling loop is in flight, the orchestrator never
\* invokes a surface command on a null surface reference: no scheduled tick throws
C31_NullSurfaceGuard ==
  /\ []~tickThrew
  /\ [][~CallOnNull]_vars

\* the step is a smoothing tick: it invokes the ProgressController callback
CallbackInvoked == running # <<>> /\ Head(running) = "smooth" /\ running' = Tail(running)

\* C38 as stated: after dispose() no further surface command is issued, the
\* ProgressController callback is not invoked again and the phase does not
\* change, even if the boot loop, the polling loop or the scene-loading sequence
\* was in flight when dispose() was called
C38_PostDisposeQuiescence ==
  [][disposed => (UNCHANGED surfVars /\ ~CallbackInvoked /\ UNCHANGED phase)]_vars

BootScheduled == Count(rafQueue, "boot") + Count(running, "boot")

\* the power-on animation has been started on a surface
BootStarted == crt /\ initPc \in {"awaitBoot", "done"}

\* C11: with frames = 20, the k-th boot tick calls setProgress with k/20, so the
\* values strictly increase and end at exactly 1; the phase is crt-power-on from
\* before the first tick, becomes idle exactly at the 20th tick and not earlier,
\* and no boot tick is scheduled after the 20th
C11_BootLoop ==
  /\ [](BootStarted /\ frame < Frames =>
          /\ phase = "crt-power-on" /\ ~bootResolved
          /\ BootScheduled = 1
          /\ crtProgress = RoundDiv(frame * One, Frames))
  /\ [](BootStarted /\ frame = Frames => BootScheduled = 0 /\ bootResolved)
  /\ [](frame <= Frames)
  /\ [][frame' # frame =>
          /\ frame' = frame + 1
          /\ crtProgress' = RoundDiv(frame' * One, Frames)
          /\ crtProgress' > crtProgress
          /\ (frame' = Frames) = (phase' = "idle")
          /\ frame' = Frames => crtProgress' = One /\ phase = "crt-power-on"]_vars

\* C11 witness: the 20th tick has just run: value 1, phase idle, nothing scheduled
C11_Witness ==
  /\ crt /\ initPc = "awaitBoot" /\ frame = Frames /\ crtProgress = One
  /\ phase = "idle" /\ bootResolved /\ BootScheduled = 0

\* the step is one in which the polling loop finishes: finish() is called, the
\* phase becomes scene, or the canvas is hidden after initialization
PollFinishes ==
  \/ crtFinished' # crtFinished
  \/ phase' = "scene" /\ phase # "scene"
  \/ initPc = "done" /\ canvasDisplay' = "none" /\ canvasDisplay # "none"

\* C7: the polling loop never calls finish(), never hides the CRT canvas and
\* never sets phase scene while getCurrentProgress() is at most 0.995
C7_FinishThreshold == [][PollFinishes => visualProgress > Thr]_vars

\* C7 witness: finish() was called on a value above 0.995 and still short of 1
C7_Witness ==
  /\ crtFinished = 1 /\ phase = "scene" /\ canvasDisplay = "none"
  /\ visualProgress > Thr /\ visualProgress < One /\ BetweenFrames

\* the frame is over (or none has run), onUnlock has fired, the value exceeds
\* 0.995 and the polling loop has not finished
FinishOverdue ==
  /\ BetweenFrames /\ Unlocked /\ visualProgress > Thr /\ phase # "scene"

\* C8 as stated: after onUnlock, finish() is called in the same animation frame
\* in which the visual value first exceeds 0.995, for every interleaving
C8_SameFrame == ~FinishOverdue

\* C8 amended: finish() is called in the same animation frame in which the value
\* first exceeds 0.995 when no loading milestone has called setTargetProgress
\* since onUnlock; otherwise it is called no later than by the first callback of
\* the following frame
C8_NextFrameAtLatest ==
  FinishOverdue =>
    /\ setSinceUnlock
    /\ rafQueue # <<>> /\ Head(rafQueue) = "poll"

\* C8 witness: the value crossed 0.995 in a frame whose poll ran before the tick
C8_Witness == FinishOverdue /\ visualProgress < One /\ crt

----------------------------------------------------------------------------
\* createGLPreloader: the object it returns

\* a fresh renderer: "live" with a WebGL2 context and a linked program, "noop"
\* (the object of empty methods) without
CreateRenderer(kind) ==
  /\ rKind' = kind
  /\ rProgress' = 0 /\ rScanline' = 0 /\ rMode' = 0 /\ rStopped' = FALSE
  /\ rDestroy' \in (IF kind = "live" THEN BOOLEAN ELSE {FALSE})
  /\ rProgram' = (IF kind = "live" THEN "linked" ELSE "none")
  /\ rOdd' = FALSE

\* preloader.setProgress / setScanlinePhase / setMode / stop, by message type
RendererCall(type, value) ==
  LET live == rKind = "live" IN
  /\ rProgress' = (IF live /\ type = "progress" THEN Clamp01(value) ELSE rProgress)
  /\ rScanline' = (IF live /\ type = "scanlinePhase" THEN Clamp01(value) ELSE rScanline)
  /\ rMode' = (IF live /\ type = "mode" THEN value ELSE rMode)
  /\ rStopped' = (IF live /\ type \in {"stop", "destroy"} THEN TRUE ELSE rStopped)
  /\ rProgram' = (IF live /\ type = "destroy" THEN "deleted" ELSE rProgram)
  /\ UNCHANGED <<rKind, rDestroy, rOdd>>

\* the draw loop of the renderer is running: frame() draws and requests itself
Drawing == rKind = "live" /\ ~rStopped

\* frame(): one more frame drawn, the next one requested (in a worker that has
\* closed nothing runs any more)
RenderFrame ==
  /\ Drawing /\ ~wClosed
  /\ rOdd' = ~rOdd
  /\ UNCHANGED <<rKind, rProgress, rScanline, rMode, rStopped, rDestroy, rProgram>>
  /\ UNCHANGED <<handleVars, workerVars, twin, assetVars, extVars>>
  /\ UNCHANGED <<pcVars, schedVars, harnVars, appVars, lsnVars, unlVars, surfVars>>

\* preloader.destroy?.() on the main thread
OptionalDestroy ==
  IF rDestroy THEN RendererCall("destroy", 0) ELSE UNCHANGED rendVars

----------------------------------------------------------------------------
\* crt-worker.ts: self.onmessage

Msg(type, value) == [type |-> type, value |-> value]

ControlTypes == {"progress", "scanlinePhase", "mode", "stop"}

\* preloader.method(value) without the optional chaining: throws on null
DirectCall(m) ==
  IF wPreloader
  THEN RendererCall(m.type, m.value) /\ UNCHANGED wThrew
  ELSE wThrew' = TRUE /\ UNCHANGED rendVars

\* preloader?.method(value)
OptionalCall(m) ==
  IF wPreloader
  THEN RendererCall(m.type, m.value) /\ UNCHANGED wThrew
  ELSE UNCHANGED <<rendVars, wThrew>>

\* the switch of self.onmessage, in a worker that has not closed
OnMessage(m) ==
  IF m.type = "init"
  THEN /\ \E kind \in {"live", "noop"} : CreateRenderer(kind)
       /\ wPreloader' = TRUE
       /\ UNCHANGED <<wClosed, wThrew, wPreInit>>
  ELSE /\ OptionalCall(m)
       /\ wClosed' = (m.type = "stop")             \* case 'stop': ...; self.close()
       /\ wPreInit' = (IF wPreloader THEN wPreInit ELSE wPreInit + 1)
       /\ UNCHANGED wPreloader

NotLoader ==
  UNCHANGED <<pcVars, schedVars, harnVars, appVars, lsnVars, unlVars, surfVars, twin,
              assetVars, extVars>>

\* the worker takes the oldest message; a worker that has closed discards it
WorkerReceive ==
  /\ chan # <<>>
  /\ chan' = Tail(chan)
  /\ IF wClosed
     THEN UNCHANGED <<workerVars, rendVars>>
     ELSE OnMessage(Head(chan))
  /\ UNCHANGED <<hKind, canvasOpacity, cmdsLeft, lastModeArg, lastModeFlag, hDestroys>>
  /\ NotLoader

----------------------------------------------------------------------------
\* The worker alone: a page posts it any messages in any order

\* values a message or a handle command can carry, out of range included; NaN is
\* what updateProgress of the unlock control passes on for 0 / 0
Values == { -(One \div 2), T05, One + One \div 2, NaN }

RawMessages ==
  {Msg("init", 0), Msg("stop", 0)}
    \cup {Msg(t, v) : t \in {"progress", "scanlinePhase"}, v \in Values}
    \cup {Msg("mode", f) : f \in {0, 1}}

WorkerInit == ProgressFresh /\ HarnessIdle /\ AppIdle /\ LoaderFresh(MaxCmds)

\* worker.postMessage(m)
PostRaw ==
  /\ cmdsLeft > 0
  /\ cmdsLeft' = cmdsLeft - 1
  /\ \E m \in RawMessages : chan' = Append(chan, m)
  /\ UNCHANGED <<hKind, canvasOpacity, lastModeArg, lastModeFlag, hDestroys>>
  /\ UNCHANGED <<workerVars, rendVars>>
  /\ NotLoader

WorkerNext == PostRaw \/ WorkerReceive \/ RenderFrame

SpecWorker == WorkerInit /\ [][WorkerNext]_vars

----------------------------------------------------------------------------
\* createCRTLoader and the handle it returns

\* a worker path that returns the handle without posting init
PostNoInit(q) == q

\* worker.postMessage({ type: 'init', canvas: offscreen, ... }), giving the channel
PostInit(q) == Append(q, Msg("init", 0))

\* createCRTLoader(options) returning a handle: the worker path posts init, the
\* fallback path creates the renderer (r) on the main thread
CreateCRTLoader(kind, r) ==
  /\ hKind' = kind
  /\ IF kind = "worker"          \* supportsWorkerOffscreen()
     THEN /\ chan' = PostInit(chan)
          /\ UNCHANGED rendVars
     ELSE /\ CreateRenderer(r)
          /\ UNCHANGED chan
  /\ UNCHANGED <<canvasOpacity, cmdsLeft, lastModeArg, lastModeFlag, hDestroys, workerVars>>

\* createCRTLoader called by a page
CreateLoader ==
  /\ hKind = "none"
  /\ \E kind \in {"worker", "main"}, r \in {"live", "noop"} : CreateCRTLoader(kind, r)
  /\ NotLoader

\* a handle method that forwards one command: postMessage in worker mode, a
\* call of the renderer in main-thread mode
Forward(type, value) ==
  IF hKind = "worker"
  THEN chan' = Append(chan, Msg(type, value)) /\ UNCHANGED rendVars
  ELSE RendererCall(type, value) /\ UNCHANGED chan

HandleReady == hKind # "none" /\ cmdsLeft > 0

\* handle.setProgress(value)
HSetProgress ==
  /\ HandleReady
  /\ cmdsLeft' = cmdsLeft - 1
  /\ \E v \in Values : Forward("progress", v)
  /\ UNCHANGED <<hKind, canvasOpacity, lastModeArg, lastModeFlag, hDestroys, workerVars>>
  /\ NotLoader

\* handle.setScanlinePhase(value)
HSetScanlinePhase ==
  /\ HandleReady
  /\ cmdsLeft' = cmdsLeft - 1
  /\ \E v \in Values : Forward("scanlinePhase", v)
  /\ UNCHANGED <<hKind, canvasOpacity, lastModeArg, lastModeFlag, hDestroys, workerVars>>
  /\ NotLoader

ModeStrings == {"boot", "scanline", "idle", "", "xyz"}

\* handle.setMode(mode)
HSetMode ==
  /\ HandleReady
  /\ cmdsLeft' = cmdsLeft - 1
  /\ \E mode \in ModeStrings :
       /\ lastModeArg' = mode
       /\ lastModeFlag' = ModeFlag(mode)
       /\ Forward("mode", ModeFlag(mode))
  /\ UNCHANGED <<hKind, canvasOpacity, hDestroys, workerVars>>
  /\ NotLoader

\* handle.finish(): worker mode posts stop; main-thread mode calls
\* preloader.destroy?.(), a method only one build of the renderer has
HFinish ==
  /\ HandleReady
  /\ cmdsLeft' = cmdsLeft - 1
  /\ canvasOpacity' = "0"
  /\ IF hKind = "worker"
     THEN chan' = Append(chan, Msg("stop", 0)) /\ UNCHANGED rendVars
     ELSE OptionalDestroy /\ UNCHANGED chan
  /\ UNCHANGED <<hKind, lastModeArg, lastModeFlag, hDestroys, workerVars>>
  /\ NotLoader

\* handle.destroy()
HDestroy ==
  /\ HandleReady
  /\ cmdsLeft' = cmdsLeft - 1
  /\ IF hKind = "worker"
     THEN chan' = Append(chan, Msg("stop", 0)) /\ UNCHANGED rendVars
     ELSE OptionalDestroy /\ UNCHANGED chan
  /\ hDestroys' = hDestroys + 1
  /\ UNCHANGED <<hKind, canvasOpacity, lastModeArg, lastModeFlag, workerVars>>
  /\ NotLoader

LoaderInit == ProgressFresh /\ HarnessIdle /\ AppIdle /\ LoaderFresh(MaxCmds)

LoaderNext ==
  \/ CreateLoader \/ HSetProgress \/ HSetScanlinePhase \/ HSetMode
  \/ HFinish \/ HDestroy \/ WorkerReceive \/ RenderFrame

SpecLoader == LoaderInit /\ [][LoaderNext]_vars

\* the worker handles every message posted to it, and the browser serves the
\* frame requests of the renderer
FairLoader == SpecLoader /\ WF_vars(WorkerReceive) /\ WF_vars(RenderFrame)

----------------------------------------------------------------------------
\* The orchestrator with initCRT calling createCRTLoader itself

\* initCRT(): this.crt = await createCRTLoader(...), which returns a handle, or
\* throws (transferControlToOffscreen, new Worker or the import of
\* shader-preload fails) into the catch block
InitCRTLoader ==
  /\ BetweenFrames /\ initPc = "initCRT"
  /\ initPc' = "powerOn"
  /\ \/ /\ \E kind \in {"worker", "main"}, r \in {"live", "noop"} : CreateCRTLoader(kind, r)
        /\ crt' = TRUE
        /\ canvasOf' = Construct({"surface"}, SurfaceCanvas)
        /\ UNCHANGED <<canvasDisplay, twin>>
     \/ /\ crt' = FALSE
        /\ canvasDisplay' = "none"
        /\ UNCHANGED <<loaderVars, canvasOf>>
  /\ UNCHANGED <<pcVars, schedVars, harnVars, lsnVars, unlVars, surfVars, assetVars, dispVars,
                 moreVars>>
  /\ UNCHANGED <<phase, frame, bootResolved, loadingStarted, loadPc, setSinceUnlock>>

NextGL ==
  \/ InitCRTLoader \/ WorkerReceive \/ RenderFrame
  \/ PlayCRTPowerOn \/ BootTick \/ InitUnlocker
  \/ PointerDown \/ PointerMove \/ PointerUp \/ PointerCancel
  \/ OreLoaded \/ ControllerThrows \/ HeroLoaded \/ DemoLoaded \/ SceneSwitched
  \/ LoadRejects
  \/ AppFrame \/ SmoothTick \/ PollTick

SpecGL == Init /\ [][NextGL]_vars

\* the renderer behind the surface is the object of empty methods that
\* createGLPreloader returns when it gets no WebGL context
NoContext == rKind = "noop"

\* C18 as stated: when the renderer cannot obtain a WebGL context, surface
\* creation throws and the orchestrator ends with the CRT canvas hidden and a
\* null surface reference, rather than driving a surface that draws nothing
C18_NoContextDegrades == NoContext => (~crt /\ canvasDisplay = "none")

----------------------------------------------------------------------------
\* Claims about the loader handle and the worker

ModeCalled == lastModeArg # NoMode

\* C33 as stated: in every reachable renderer state progress and scanlinePhase
\* lie in [0,1] whatever values are passed to setProgress and setScanlinePhase,
\* and the mode flag is 0 or 1 for every string passed to handle.setMode
C33_UniformRanges ==
  /\ rProgress \in 0..One /\ rScanline \in 0..One
  /\ rMode \in {0, 1}
  /\ ModeCalled => lastModeFlag \in {0, 1}

\* C5 as stated: setMode("boot") forwards flag 0 and setMode(s) forwards flag 1
\* for every other string s, in worker and in main-thread mode
C5_BootElseOne ==
  ModeCalled => lastModeFlag = (IF lastModeArg = "boot" THEN 0 ELSE 1)

\* C5 amended: setMode("scanline") forwards flag 1 and setMode(s) forwards flag 0
\* for every other string s ("boot", "idle", "", "xyz"), in worker and in
\* main-thread mode; on the main thread a drawing renderer holds that flag at once
C5_ScanlineElseZero ==
  ModeCalled =>
    /\ lastModeArg = "scanline" => lastModeFlag = 1
    /\ lastModeArg \in {"boot", "idle", "", "xyz"} => lastModeFlag = 0
    /\ (hKind = "main" /\ rKind = "live") => rMode = lastModeFlag

\* C5 witness: a string that is neither "boot" nor "scanline" went through a
\* worker handle as flag 0 and reached the renderer
C5_Witness ==
  /\ hKind = "worker" /\ lastModeArg = "xyz" /\ lastModeFlag = 0
  /\ chan = <<>> /\ rKind = "live" /\ rMode = 0 /\ cmdsLeft = MaxCmds - 2

\* the worker handles a message of one of the given types before any init
PreInit(types) ==
  /\ ~wPreloader /\ ~wClosed
  /\ chan # <<>> /\ Head(chan).type \in types
  /\ chan' = Tail(chan)

\* the worker handles an init message
InitHandled ==
  /\ chan # <<>> /\ Head(chan).type = "init"
  /\ chan' = Tail(chan)

C19_FinishStopsDrawing ==
  /\ [][canvasOpacity' # canvasOpacity => canvasOpacity' = "0"]_vars
  /\ (canvasOpacity = "0") ~> [](~Drawing /\ ~ENABLED RenderFrame)

\* C20 as stated: handle.finish() does not delete the shaders or the program: a
\* step that deletes them is not the first finish() (the one that sets opacity 0)
C20_FinishKeepsResources ==
  [][(rProgram' = "deleted" /\ rProgram # "deleted") => canvasOpacity' = canvasOpacity]_vars

\* the step is a handle.destroy() that follows an earlier destroy()
DestroyAgain == hDestroys > 0 /\ hDestroys' > hDestroys

\* the step is the worker taking a message after it has closed
ReceiveAfterClose == wClosed /\ chan # <<>> /\ chan' = Tail(chan)

\* C21 as stated: handle.destroy() can be called any number of times, and after
\* finish(), without error; after the first destroy() the draw loop is stopped
\* (in worker mode once the worker has handled the message), and every further
\* destroy() leaves the renderer state unchanged
C21_DestroyIdempotent ==
  /\ []~wThrew
  /\ [][(DestroyAgain \/ ReceiveAfterClose) => UNCHANGED rendVars]_vars
  /\ (hDestroys > 0) ~> [](~Drawing /\ ~ENABLED RenderFrame)

\* positions of the init messages in a channel
InitsIn(q) == {i \in 1..Len(q) : q[i].type = "init"}

\* the step posts an init message
InitPosted ==
  /\ Len(chan') = Len(chan) + 1
  /\ chan'[Len(chan')].type = "init"
  /\ SubSeq(chan', 1, Len(chan)) = chan

\* C23: in worker mode init is the first message posted and is posted once, by
\* createCRTLoader itself; every progress, scanlinePhase, mode and stop message
\* is posted after it, so the worker never handles a control message while its
\* renderer reference is null
C23_InitFirstOnce ==
  /\ [](hKind = "worker" =>
          /\ wPreInit = 0
          /\ InitsIn(chan) = (IF wPreloader THEN {} ELSE {1}))
  /\ [][InitPosted => (hKind = "none" /\ hKind' = "worker" /\ chan = <<>>)]_vars
  /\ [][hKind = "worker" => ~InitPosted]_vars

\* C23 witness: the worker of a handle has handled init and then three control
\* messages, the last of them stop
C23_Witness ==
  /\ hKind = "worker" /\ chan = <<>> /\ cmdsLeft = MaxCmds - 3
  /\ wPreloader /\ wClosed /\ wPreInit = 0
  /\ rKind = "live" /\ rProgress = One /\ rMode = 1 /\ rStopped

----------------------------------------------------------------------------
\* Worker mode and main-thread mode side by side: a page with worker support and
\* a page without it call createCRTLoader and then issue the same commands

\* createGLPreloader on the second page: the state of the closure it returns
\* (kind: "live" or "noop", d: the object has a destroy method)
MainFresh(kind, d) ==
  [kind |-> kind, progress |-> 0, scanline |-> 0, mode |-> 0, stopped |-> FALSE,
   destroy |-> d /\ kind = "live",
   program |-> IF kind = "live" THEN "linked" ELSE "none"]

\* preloader.setProgress / setScanlinePhase / setMode / destroy on the second
\* page's renderer r: the state it leaves
MainCalled(r, type, value) ==
  IF r.kind # "live" THEN r
  ELSE CASE type = "progress"      -> [r EXCEPT !.progress = Clamp01(value)]
         [] type = "scanlinePhase" -> [r EXCEPT !.scanline = Clamp01(value)]
         [] type = "mode"          -> [r EXCEPT !.mode = value]
         [] type = "destroy"       -> [r EXCEPT !.stopped = TRUE, !.program = "deleted"]

\* preloader.destroy?.() on the second page
MainOptionalDestroy(r) == IF r.destroy THEN MainCalled(r, "destroy", 0) ELSE r

TwinInit == ProgressFresh /\ HarnessIdle /\ AppIdle /\ LoaderFresh(MaxCmds)

TwinUnchanged ==
  UNCHANGED <<pcVars, schedVars, harnVars, appVars, lsnVars, unlVars, surfVars, assetVars, extVars>>

\* createCRTLoader on both pages: the first takes the worker path, the second
\* the fallback path
TwinCreate ==
  /\ hKind = "none"
  /\ CreateCRTLoader("worker", "none")
  /\ \E kind \in {"live", "noop"}, d \in BOOLEAN : twin' = MainFresh(kind, d)
  /\ TwinUnchanged

TwinReady == hKind = "worker" /\ twin # NoTwin /\ cmdsLeft > 0

\* setProgress(value) on both handles
TwinSetProgress ==
  /\ TwinReady
  /\ cmdsLeft' = cmdsLeft - 1
  /\ \E v \in Values :
       /\ Forward("progress", v)
       /\ twin' = MainCalled(twin, "progress", v)
  /\ UNCHANGED <<hKind, canvasOpacity, lastModeArg, lastModeFlag, hDestroys, workerVars>>
  /\ TwinUnchanged

\* setScanlinePhase(value) on both handles
TwinSetScanlinePhase ==
  /\ TwinReady
  /\ cmdsLeft' = cmdsLeft - 1
  /\ \E v \in Values :
       /\ Forward("scanlinePhase", v)
       /\ twin' = MainCalled(twin, "scanlinePhase", v)
  /\ UNCHANGED <<hKind, canvasOpacity, lastModeArg, lastModeFlag, hDestroys, workerVars>>
  /\ TwinUnchanged

\* setMode(mode) on both handles
TwinSetMode ==
  /\ TwinReady
  /\ cmdsLeft' = cmdsLeft - 1
  /\ \E mode \in ModeStrings :
       /\ lastModeArg' = mode
       /\ lastModeFlag' = ModeFlag(mode)
       /\ Forward("mode", ModeFlag(mode))
       /\ twin' = MainCalled(twin, "mode", ModeFlag(mode))
  /\ UNCHANGED <<hKind, canvasOpacity, hDestroys, workerVars>>
  /\ TwinUnchanged

\* finish() on both handles
TwinFinish ==
  /\ TwinReady
  /\ cmdsLeft' = cmdsLeft - 1
  /\ canvasOpacity' = "0"
  /\ chan' = Append(chan, Msg("stop", 0))
  /\ twin' = MainOptionalDestroy(twin)
  /\ UNCHANGED <<hKind, lastModeArg, lastModeFlag, hDestroys, workerVars, rendVars>>
  /\ TwinUnchanged

\* destroy() on both handles
TwinDestroy ==
  /\ TwinReady
  /\ cmdsLeft' = cmdsLeft - 1
  /\ hDestroys' = hDestroys + 1
  /\ chan' = Append(chan, Msg("stop", 0))
  /\ twin' = MainOptionalDestroy(twin)
  /\ UNCHANGED <<hKind, canvasOpacity, lastModeArg, lastModeFlag, workerVars, rendVars>>
  /\ TwinUnchanged

TwinNext ==
  \/ TwinCreate \/ TwinSetProgress \/ TwinSetScanlinePhase \/ TwinSetMode
  \/ TwinFinish \/ TwinDestroy \/ WorkerReceive \/ RenderFrame

SpecTwin == TwinInit /\ [][TwinNext]_vars

\* every message posted to the worker has been handled, and both pages run the
\* same build of the renderer with the same outcome of getContext
Delivered ==
  /\ hKind = "worker" /\ chan = <<>> /\ wPreloader
  /\ rKind = twin.kind /\ rDestroy = twin.destroy

\* C22 as stated: for every sequence of commands issued on a handle, once all
\* messages are delivered the renderer's progress, scanlinePhase, mode flag,
\* stopped flag and GPU resources are the same in worker mode as in main-thread
\* mode
C22_ModeIndependent ==
  Delivered =>
    /\ rProgress = twin.progress /\ rScanline = twin.scanline /\ rMode = twin.mode
    /\ rStopped = twin.stopped
    /\ rProgram = twin.program

----------------------------------------------------------------------------
\* AssetManager (src/src/utils/asset-manager.ts): loadAsset and performLoad, one
\* action per run of code between two awaits

\* a loadAsset that does not look at loadingPromises
NeverLoading(n) == FALSE

\* if (this.loadingPromises.has(cacheKey))
AlreadyLoading(n) == loadingPromises[n] # 0

\* the Asset object performLoad creates: loaded false, no error
NewAsset == [st |-> "loading", msg |-> FALSE]

\* how a call that is handed the promise of load i of name n stands: waiting while
\* the load is in flight, settled with its outcome otherwise
Handed(n, i, waiting) ==
  [name |-> n, load |-> i,
   st |-> CASE assets[n][i].st = "loading" -> waiting
            [] assets[n][i].st = "loaded"  -> "resolved"
            [] assets[n][i].st = "failed"  -> "rejected"]

AssetsUnchanged ==
  UNCHANGED <<pcVars, schedVars, harnVars, appVars, lsnVars, unlVars, surfVars, loaderVars,
              extVars>>

\* loadAsset(config) with config.name = n, up to its first await or its return
LoadAsset(c, n) ==
  LET e == cache[n] IN
  IF e # 0 /\ assets[n][e].st = "loaded"
  THEN \* return cached.data
       /\ callers' = [callers EXCEPT ![c] = [name |-> n, st |-> "resolved", load |-> e]]
       /\ UNCHANGED <<assets, cache, loadingPromises>>
  ELSE IF e # 0 /\ assets[n][e].st = "failed" /\ assets[n][e].msg
  THEN \* throw new Error(cached.error)
       /\ callers' = [callers EXCEPT ![c] = [name |-> n, st |-> "rejected", load |-> e]]
       /\ UNCHANGED <<assets, cache, loadingPromises>>
  ELSE IF AlreadyLoading(n)
  THEN \* return this.loadingPromises.get(cacheKey)
       /\ callers' = [callers EXCEPT ![c] = Handed(n, loadingPromises[n], "sharing")]
       /\ UNCHANGED <<assets, cache, loadingPromises>>
  ELSE \* performLoad to its first await, loadingPromises.set, await loadingPromise
       LET i == Len(assets[n]) + 1 IN
       /\ assets' = [assets EXCEPT ![n] = Append(@, NewAsset)]
       /\ cache' = [cache EXCEPT ![n] = i]
       /\ loadingPromises' = [loadingPromises EXCEPT ![n] = i]
       /\ callers' = [callers EXCEPT ![c] = [name |-> n, st |-> "owner", load |-> i]]

\* a caller that has not called yet calls loadAsset for some name
CallLoadAsset ==
  /\ \E c \in Callers, n \in AssetNames :
       /\ callers[c].st = "idle"
       /\ LoadAsset(c, n)
  /\ AssetsUnchanged

\* the calls that returned the promise of load i of name n settle with it
Settled(n, i, st) ==
  [c \in Callers |->
     IF callers[c].st = "sharing" /\ callers[c].name = n /\ callers[c].load = i
     THEN [callers[c] EXCEPT !.st = st]
     ELSE callers[c]]

\* the loader of performLoad resolves: asset.data = data, asset.loaded = true
LoadSucceeds ==
  /\ \E n \in AssetNames, i \in 1..MaxCallers :
       /\ i <= Len(assets[n]) /\ assets[n][i].st = "loading"
       /\ assets' = [assets EXCEPT ![n][i].st = "loaded"]
       /\ callers' = Settled(n, i, "resolved")
  /\ UNCHANGED <<cache, loadingPromises>>
  /\ AssetsUnchanged

\* the loader rejects: asset.error = error.message, which is a non-empty string
\* (msg) or not (a rejection with an event, or with an empty message)
LoadFails ==
  /\ \E n \in AssetNames, i \in 1..MaxCallers, msg \in BOOLEAN :
       /\ i <= Len(assets[n]) /\ assets[n][i].st = "loading"
       /\ assets' = [assets EXCEPT ![n][i] = [st |-> "failed", msg |-> msg]]
       /\ callers' = Settled(n, i, "rejected")
  /\ UNCHANGED <<cache, loadingPromises>>
  /\ AssetsUnchanged

\* loadAsset after await loadingPromise, in the call that started the load:
\* this.loadingPromises.delete(cacheKey), then return result or throw error
OwnerContinues ==
  /\ \E c \in Callers :
       LET n == callers[c].name
           i == callers[c].load IN
       /\ callers[c].st = "owner"
       /\ assets[n][i].st # "loading"
       /\ loadingPromises' = [loadingPromises EXCEPT ![n] = 0]
       /\ callers' = [callers EXCEPT ![c] = Handed(n, i, "owner")]
  /\ UNCHANGED <<assets, cache>>
  /\ AssetsUnchanged

AssetsInit == Init

AssetsNext == CallLoadAsset \/ LoadSucceeds \/ LoadFails \/ OwnerContinues

SpecAssets == AssetsInit /\ [][AssetsNext]_vars

\* loads of name n in flight, and loads of name n that have succeeded
InFlight(n) == {i \in 1..Len(assets[n]) : assets[n][i].st = "loading"}
Succeeded(n) == {i \in 1..Len(assets[n]) : assets[n][i].st = "loaded"}

\* the calls for name n that have not settled yet
Pending(n) == {c \in Callers : callers[c].name = n /\ callers[c].st \in {"owner", "sharing"}}

\* C29: for any interleaving of concurrent loadAsset calls for the same asset
\* name, the underlying load is started at most once (no load is started while
\* a call for that name has not settled or a load of it is in flight, so at most
\* one is in flight, and a second load is only ever started after the first has
\* failed and every call sharing it has settled), every caller that receives
\* data receives the same data, and an asset that has loaded successfully is
\* never loaded again
C29_AssetCache ==
  /\ [](\A n \in AssetNames :
          /\ Cardinality(InFlight(n)) <= 1
          /\ Cardinality(Succeeded(n)) <= 1
          /\ Len(assets[n]) > 1 => \E i \in 1..Len(assets[n]) : assets[n][i].st = "failed")
  /\ [](\A c, d \in Callers :
          (callers[c].st = "resolved" /\ callers[d].st = "resolved"
             /\ callers[c].name = callers[d].name) => callers[c].load = callers[d].load)
  /\ [](\A c \in Callers :
          callers[c].st = "resolved" => callers[c].load \in Succeeded(callers[c].name))
  /\ [][\A n \in AssetNames :
          Len(assets'[n]) > Len(assets[n]) =>
            /\ InFlight(n) = {} /\ Succeeded(n) = {}
            /\ Pending(n) = {}]_vars

\* C29 witness: two calls for "a" were made while its load was in flight and a
\* third after it had succeeded: one load, and all three received its data
C29_Witness ==
  /\ Len(assets["a"]) = 1 /\ assets["a"][1].st = "loaded" /\ loadingPromises["a"] = 0
  /\ \A c \in Callers : callers[c] = [name |-> "a", st |-> "resolved", load |-> 1]

====
